---- MODULE Spec2Model ----
(***************************************************************************)
(* Escrow ledger, escrow client library, x402 payment verifier and the     *)
(* x402 payment gateway of the AI-Economy-Protocol repository.             *)
(*                                                                         *)
(* The on-ledger escrow program is not part of the Python sources; its     *)
(* state machine and account layout are modelled from the specification    *)
(* (sections 3, 4.A and 6).  Everything off-ledger is translated from the  *)
(* Python code.                                                            *)
(***************************************************************************)
EXTENDS Integers, Sequences, FiniteSets, TLC

\* ------------------------------------------------------------------ bounds
\* transactions ever handed to the ledger
MaxTx == 3
\* concurrent /claim-payment requests served by the gateway
MaxClaims == 2
\* calls of initialize_escrow_via_gateway
MaxInitCalls == 2
\* requests served by the x402 provider (/analyze)
MaxRequests == 2
\* millisecond clock values seen by create_escrow_transaction
MaxClock == 2
\* X-Payment envelopes built by clients
MaxEnvelopes == 1
MaxSdkRetries == 1
MaxAgentCalls == 3
MaxServiceCalls == 2

\* --------------------------------------------------------- program constants
\* proof_verifier.py: minimum account size and the lamports threshold
MIN_ACCOUNT_DATA == 85
LAMPORTS_THRESHOLD == 2000000
\* escrow_client.py: the fixed offset check_escrow_exists reads the status at
STATUS_OFFSET == 213
MIN_DATA_LEN == 214
\* payment_verifier.py: confirmation polls after submitting the embedded tx
CONFIRM_POLLS == 10
\* payment_handler.py: amount reported when the logs carry none
DEFAULT_AMOUNT_TOKENS == 8
\* x402/server.py
SERVICE_ID == "data_analysis_001"
PROVIDER_WALLET == "ProviderA"
\* SERVICE_PRICE (0.1 SOL) in lamports: int(0.1 * 1_000_000_000)
SERVICE_PRICE_LAMPORTS == 100000000

\* ------------------------------------------------------------- the universe
\* payment_handler.py loads the wallet "ClientAgent" to sign releases
CLIENT_WALLET == "ClientAgent"
OTHER_PROVIDER == "ProviderB"
Clients == {CLIENT_WALLET}
Providers == {PROVIDER_WALLET, OTHER_PROVIDER}
Wallets == Clients \cup Providers

TaskDatas == {"Q4", "Q5"}
Amounts == {50000000, SERVICE_PRICE_LAMPORTS}

\* service ids of 2, 55 and 64 bytes
SID_SHORT == "s1"
SID_55 == "s234567890123456789012345678901234567890123456789012345"
SID_64 == "s234567890123456789012345678901234567890123456789012345678901234"
ServiceIds == {SID_SHORT, SID_55, SID_64}

\* Python None where a digest or a signature is expected
NoHash == <<"none">>
NoSig == 0

\* escrow status enum (spec section 3; escrow_client.py status_names)
Pending == 0
ProofSubmitted == 1
Completed == 2
Cancelled == 3

\* ------------------------------------------------------------ pure functions
\* hashlib.sha256(s).digest(): a collision-free digest of the byte string
Sha256(s) == <<"sha256", s>>

\* bytes.hex(): the lower-case hex string of a digest.  A hex string is the
\* digest it spells together with the letter case it is written in.
Hex(digest) == [digest |-> digest, case |-> "lower"]
UpperHex(digest) == [digest |-> digest, case |-> "upper"]

\* EscrowClient.hash_task
hash_task(task_data) == Sha256(task_data)

\* PaymentVerifier._compute_task_hash: f"{service_id}:{task_data}:{nonce}"
compute_task_hash_NoNonce(service_id, task_data, nonce) ==
    Hex(Sha256(service_id \o ":" \o task_data))

compute_task_hash(service_id, task_data, nonce) ==
    Hex(Sha256(service_id \o ":" \o task_data \o ":" \o ToString(nonce)))

\* Pubkey.find_program_address(seeds, PROGRAM_ID): the address is a function
\* of the seeds alone; the bump is whatever the first off-curve candidate is.
FindProgramAddress(seeds) ==
    [addr |-> <<"pda", seeds>>,
     bump |-> IF seeds[3] = PROVIDER_WALLET THEN 255 ELSE 254]

\* EscrowClient.derive_escrow_pda with task_hash given (service_id=None)
derive_escrow_pda(client, provider, task_hash) ==
    FindProgramAddress(<<"escrow", client, provider, task_hash>>)

\* ------------------------------------------------------------------- state
VARIABLES
    accounts,    \* ledger: escrow address -> escrow account
    balance,     \* ledger: wallet -> tokens held in its token account
    txs,         \* every transaction handed to the ledger; its index is its signature
    claim,       \* gateway: the /claim-payment requests
    lastVerify,  \* gateway: the last /verify-proof exchange
    now,         \* x402 client: time.time() in milliseconds
    envelopes,   \* x402 client: the X-Payment envelopes built so far, in call order
    req,         \* x402 provider: the /analyze requests
    call,        \* escrow client library: the initialize_escrow_via_gateway calls
    agent,       \* provider agent: its GatewayClient.claim_payment call
    x402client,  \* x402 client: its X402Client.request_with_payment call
    sdk,         \* SDK: the claim_payment call of each payment client
    market,      \* marketplace: the MarketplaceRegistry and its callers' view
    ata,         \* escrow token accounts and the instruction lists sent for them
    analyst,     \* provider agent: handle_message of the chat protocol and its storage
    store,       \* marketplace service: requests.json, providers.json and what was asked of them
    buyer        \* client agent (agent_b): the pricing branch of its message handler

ledgerVars == <<accounts, balance, txs>>
gatewayVars == <<claim, lastVerify>>
x402Vars == <<now, envelopes, req>>
appVars == <<sdk, market, ata,
      analyst,
      store,
      buyer>>
offLedgerVars ==
    <<claim, lastVerify, now, envelopes, req, call, agent, x402client, sdk, market,
      ata,
      analyst,
      store,
      buyer>>
vars == <<accounts, balance, txs, claim, lastVerify, now, envelopes, req, call, agent,
          x402client, sdk, market, ata,
      analyst,
      store,
      buyer>>

\* ------------------------------------------------------ ledger (spec 3, 4.A, 6)
\* wall clock of the ledger (created_at, i64 seconds)
NOW == 1700000000
\* tokens each wallet starts with
INITIAL_TOKENS == 200000000
\* allocated size of an escrow account: discriminator 8, client 32, provider 32,
\* amount 8, service_id 4+64, task_hash 32, proof_hash 1+32, status 1,
\* created_at 8, bump 1
ESCROW_ACCOUNT_SPACE == 223
MAX_SERVICE_ID_LEN == 64
WALLET_LAMPORTS == 1000000000

\* rent-exempt minimum the runtime demands of an account of that size
RentExemptMinimum(dataLen) == (128 + dataLen) * 6960

Tx(kind, pda, signer, provider, amount, service_id, task_hash, proof_hash) ==
    [kind |-> kind, pda |-> pda, signer |-> signer, provider |-> provider,
     amount |-> amount, service_id |-> service_id, task_hash |-> task_hash,
     proof_hash |-> proof_hash, result |-> "pending"]

Exists(addr) == addr \in DOMAIN accounts

\* initialize_escrow without the test for an account already at the address
CheckInitialize_NoExistsCheck(tx) ==
    IF tx.amount = 0 THEN "ZeroAmount"
    ELSE IF Len(tx.service_id) > MAX_SERVICE_ID_LEN THEN "ServiceIdTooLong"
    ELSE IF balance[tx.signer] < tx.amount THEN "InsufficientFunds"
    ELSE "ok"

\* initialize_escrow: preconditions of spec 4.A.1
CheckInitialize(tx) ==
    IF Exists(tx.pda) THEN "AlreadyExists"
    ELSE IF tx.amount = 0 THEN "ZeroAmount"
    ELSE IF Len(tx.service_id) > MAX_SERVICE_ID_LEN THEN "ServiceIdTooLong"
    ELSE IF balance[tx.signer] < tx.amount THEN "InsufficientFunds"
    ELSE "ok"

\* submit_proof that succeeds again on an escrow that already has a proof
CheckSubmitProof_Repeatable(tx) ==
    IF ~Exists(tx.pda) THEN "AccountNotInitialized"
    ELSE IF tx.signer # accounts[tx.pda].provider THEN "WrongSigner"
    ELSE IF accounts[tx.pda].status \notin {Pending, ProofSubmitted} THEN "WrongStatus"
    ELSE "ok"

\* submit_proof that takes the proof of any signer
CheckSubmitProof_AnySigner(tx) ==
    IF ~Exists(tx.pda) THEN "AccountNotInitialized"
    ELSE IF accounts[tx.pda].status # Pending THEN "WrongStatus"
    ELSE "ok"

\* submit_proof: preconditions of spec 4.A.2
CheckSubmitProof(tx) ==
    IF ~Exists(tx.pda) THEN "AccountNotInitialized"
    ELSE IF tx.signer # accounts[tx.pda].provider THEN "WrongSigner"
    ELSE IF accounts[tx.pda].status # Pending THEN "WrongStatus"
    ELSE "ok"

\* release_payment that also accepts an escrow already Completed
CheckReleasePayment_AnyStatus(tx) ==
    IF ~Exists(tx.pda) THEN "AccountNotInitialized"
    ELSE IF tx.signer # accounts[tx.pda].client THEN "WrongAuthority"
    ELSE IF accounts[tx.pda].status \in {Pending, Cancelled} THEN "WrongStatus"
    ELSE "ok"

\* release_payment: preconditions of spec 4.A.3
CheckReleasePayment(tx) ==
    IF ~Exists(tx.pda) THEN "AccountNotInitialized"
    ELSE IF tx.signer # accounts[tx.pda].client THEN "WrongAuthority"
    ELSE IF accounts[tx.pda].status # ProofSubmitted THEN "WrongStatus"
    ELSE IF accounts[tx.pda].tokens # accounts[tx.pda].amount THEN "BalanceMismatch"
    ELSE "ok"

\* cancel_escrow that does not look at the status
CheckCancelEscrow_AnyStatus(tx) ==
    IF ~Exists(tx.pda) THEN "AccountNotInitialized"
    ELSE IF tx.signer # accounts[tx.pda].client THEN "WrongAuthority"
    ELSE "ok"

\* cancel_escrow: preconditions of spec 4.A.4
CheckCancelEscrow(tx) ==
    IF ~Exists(tx.pda) THEN "AccountNotInitialized"
    ELSE IF tx.signer # accounts[tx.pda].client THEN "WrongAuthority"
    ELSE IF accounts[tx.pda].status # Pending THEN "WrongStatus"
    ELSE "ok"

\* what the program answers to a transaction in the current ledger state
LedgerCheck(tx) ==
    CASE tx.kind = "init" -> CheckInitialize(tx)
      [] tx.kind = "proof" -> CheckSubmitProof(tx)
      [] tx.kind = "release" -> CheckReleasePayment(tx)
      [] tx.kind = "cancel" -> CheckCancelEscrow(tx)

\* initialize_escrow that opens the account without moving the tokens
NewEscrow_NoDeposit(tx) ==
    [client |-> tx.signer, provider |-> tx.provider, amount |-> tx.amount,
     service_id |-> tx.service_id, task_hash |-> tx.task_hash,
     proof_hash |-> NoHash, status |-> Pending, created_at |-> NOW,
     bump |-> FindProgramAddress(tx.pda[2]).bump, released |-> 0,
     lamports |-> RentExemptMinimum(ESCROW_ACCOUNT_SPACE),
     tokens |-> 0,
     history |-> <<[status |-> Pending, by |-> tx.signer]>>]

\* initialize_escrow: the account it allocates (spec 4.A.1)
NewEscrow(tx) ==
    [client |-> tx.signer, provider |-> tx.provider, amount |-> tx.amount,
     service_id |-> tx.service_id, task_hash |-> tx.task_hash,
     proof_hash |-> NoHash, status |-> Pending, created_at |-> NOW,
     bump |-> FindProgramAddress(tx.pda[2]).bump, released |-> 0,
     lamports |-> RentExemptMinimum(ESCROW_ACCOUNT_SPACE),
     tokens |-> tx.amount,
     history |-> <<[status |-> Pending, by |-> tx.signer]>>]

\* effect of a transaction the program accepts
AccountsAfter(tx) ==
    CASE tx.kind = "init" -> (tx.pda :> NewEscrow(tx)) @@ accounts
      [] tx.kind = "proof" ->
            [accounts EXCEPT ![tx.pda].proof_hash = tx.proof_hash,
                             ![tx.pda].status = ProofSubmitted,
                             ![tx.pda].history =
                                 Append(@, [status |-> ProofSubmitted, by |-> tx.signer])]
      [] tx.kind = "release" ->
            [accounts EXCEPT ![tx.pda].tokens = 0, ![tx.pda].status = Completed,
                             ![tx.pda].released = @ + 1,
                             ![tx.pda].history =
                                 Append(@, [status |-> Completed, by |-> tx.signer])]
      [] tx.kind = "cancel" ->
            [accounts EXCEPT ![tx.pda].tokens = 0, ![tx.pda].status = Cancelled,
                             ![tx.pda].history =
                                 Append(@, [status |-> Cancelled, by |-> tx.signer])]

BalanceAfter(tx) ==
    CASE tx.kind = "init" -> [balance EXCEPT ![tx.signer] = @ - tx.amount]
      [] tx.kind = "proof" -> balance
      [] tx.kind = "release" ->
            [balance EXCEPT ![tx.provider] = @ + accounts[tx.pda].amount]
      [] tx.kind = "cancel" ->
            [balance EXCEPT ![accounts[tx.pda].client] = @ + accounts[tx.pda].amount]

\* The runtime executes one submitted transaction; transactions of different
\* senders land in any order, and a transaction may stay unprocessed for ever.
LedgerProcess(sig) ==
    /\ sig \in DOMAIN txs
    /\ txs[sig].result = "pending"
    /\ LET res == LedgerCheck(txs[sig]) IN
         /\ txs' = [txs EXCEPT ![sig].result = res]
         /\ accounts' = IF res = "ok" THEN AccountsAfter(txs[sig]) ELSE accounts
         /\ balance' = IF res = "ok" THEN BalanceAfter(txs[sig]) ELSE balance
    /\ UNCHANGED offLedgerVars

\* RPC get_account_info: value None (exists = FALSE), or the size and the
\* lamports of the account found at the address
get_account_info(addr) ==
    IF Exists(addr)
    THEN [exists |-> TRUE, dataLen |-> ESCROW_ACCOUNT_SPACE,
          lamports |-> accounts[addr].lamports]
    ELSE IF addr[1] = "wallet"
    THEN [exists |-> TRUE, dataLen |-> 0, lamports |-> WALLET_LAMPORTS]
    ELSE [exists |-> FALSE, dataLen |-> 0, lamports |-> 0]

\* byte k of a little-endian i64
LeByte(v, k) == IF k > 3 THEN 0 ELSE (v \div (256 ^ k)) % 256

\* account data byte at offset i >= the status offset (borsh: the fields are
\* packed, service_id takes 4 + len bytes, the allocation is zero-padded)
EscrowDataByte(a, i) ==
    LET statusAt == 8 + 32 + 32 + 8 + 4 + Len(a.service_id) + 32 + 33 IN
    IF i = statusAt THEN a.status
    ELSE IF i > statusAt /\ i <= statusAt + 8 THEN LeByte(a.created_at, i - statusAt - 1)
    ELSE IF i = statusAt + 9 THEN a.bump
    ELSE 0

SeenStatus(addr) == IF Exists(addr) THEN accounts[addr].status ELSE -1

\* the signature of a transaction is its index in txs
LastSig(log) == Len(log)

\* ------------------------------------------------------------- ledger clients
\* A party outside the services modelled here (an agent, a script) has its
\* transaction executed by the program.  A rejected transaction changes nothing.
LedgerExecute(tx) ==
    /\ LedgerCheck(tx) = "ok"
    /\ accounts' = AccountsAfter(tx)
    /\ balance' = BalanceAfter(tx)
    /\ UNCHANGED <<txs, offLedgerVars>>

\* A party outside the services modelled here sends a transaction and does not
\* wait: the program accepts or rejects it when it is processed.
LedgerSubmit(tx) ==
    /\ Len(txs) < MaxTx
    /\ txs' = Append(txs, tx)
    /\ UNCHANGED <<accounts, balance, offLedgerVars>>

InitTx(client, provider, service_id, task_hash, amount) ==
    Tx("init", derive_escrow_pda(client, provider, task_hash).addr, client, provider,
       amount, service_id, task_hash, NoHash)
ProofTx(wallet, escrow_pda, proof_data) ==
    Tx("proof", escrow_pda, wallet, wallet, 0, "", NoHash, Sha256(proof_data))
ReleaseTx(authority, escrow_pda, provider) ==
    Tx("release", escrow_pda, authority, provider, 0, "", NoHash, NoHash)
CancelTx(client, escrow_pda) ==
    Tx("cancel", escrow_pda, client, client, 0, "", NoHash, NoHash)

\* GatewayEscrowClient.submit_proof_with_pda: the wallet of the caller signs as
\* the provider and sends over RPC with skip_preflight, without waiting
submit_proof_with_pda(wallet, escrow_pda, proof_data) ==
    /\ Len(txs) < MaxTx
    /\ txs' = Append(txs, ProofTx(wallet, escrow_pda, proof_data))
    /\ UNCHANGED <<accounts, balance, offLedgerVars>>

\* ------------------------------------------------- dual-path router (4.E.1)
\* What one call of the gateway-then-RPC routine can do with a transaction:
\*   gateway           the external gateway delivers it and answers
\*   rpc               the gateway fails before delivery, RPC sends it
\*   gateway_lost_rpc  the gateway delivers it but its answer is lost or
\*                     malformed, so RPC sends a re-signed copy
\*   fail              the gateway fails and the RPC send raises
\*   gateway_lost_fail the gateway delivers it, the answer is lost, RPC raises
\*   gateway_refused_rpc the gateway simulates it, finds that the program
\*                     rejects it and answers with that error; RPC sends it
Routes == {"gateway", "rpc", "gateway_lost_rpc", "fail", "gateway_lost_fail",
           "gateway_refused_rpc"}
\* the gateway can refuse only what the program rejects in the current state
RoutePossible(tx, route) == route = "gateway_refused_rpc" => LedgerCheck(tx) # "ok"
Delivered(route) ==
    CASE route = "gateway_lost_rpc" -> 2
      [] route = "fail" -> 0
      [] OTHER -> 1
ReturnsSignature(route) ==
    route \in {"gateway", "rpc", "gateway_lost_rpc", "gateway_refused_rpc"}
\* how often the routine goes to the gateway before it returns or falls back:
\* the try block runs once, GatewayClient posts once and raises on any failure
GatewayAttempts(route) == IF route = "" THEN 0 ELSE 1
\* the gateway path failed on the network or with a 5xx answer
TransientRoutes == {"rpc", "gateway_lost_rpc", "fail", "gateway_lost_fail"}
\* a routine that reports the gateway whichever path sent the transaction
UsedGateway_Always(route) == TRUE

\* used_gateway: True from the returns inside the gateway try block, False
\* from the return after the RPC send
UsedGateway(route) == route = "gateway"

Routed(tx, route) ==
    CASE Delivered(route) = 0 -> txs
      [] Delivered(route) = 1 -> Append(txs, tx)
      [] Delivered(route) = 2 -> Append(Append(txs, tx), tx)

\* ------------------------------------------- gateway: proof_verifier.py
\* ProofVerifier.verify_proof
verify_proof(escrow_pda, rpc_ok) ==
    IF escrow_pda[1] = "invalid" \/ ~rpc_ok
    THEN [verified |-> FALSE, status |-> "error"]
    ELSE LET account_info == get_account_info(escrow_pda) IN
         IF ~account_info.exists
         THEN [verified |-> FALSE, status |-> "not_found"]
         ELSE IF account_info.dataLen < MIN_ACCOUNT_DATA
         THEN [verified |-> FALSE, status |-> "pending"]
         ELSE IF account_info.lamports > LAMPORTS_THRESHOLD
         THEN [verified |-> TRUE, status |-> "verified"]
         ELSE [verified |-> FALSE, status |-> "pending"]

\* ------------------------------------------- gateway: payment_gateway.py
Claims == 1..MaxClaims

IdleClaim ==
    [pc |-> "idle", pda |-> <<"missing">>, provider |-> "", seen |-> -1,
     sent |-> {}, sig |-> NoSig, code |-> 0, status |-> "", amount |-> 0,
     route |-> "", used_gateway |-> FALSE, release_sig |-> NoSig, journal |-> ""]

Respond(c, code, status, sig, amount) ==
    [c EXCEPT !.pc = "done", !.code = code, !.status = status, !.sig = sig,
              !.amount = amount]

\* POST /verify-proof
verify_proof_endpoint(escrow_pda, rpc_ok) ==
    /\ lastVerify' =
         IF escrow_pda = <<"missing">>
         THEN [pda |-> escrow_pda, seen |-> -1, code |-> 400, verified |-> FALSE,
               status |-> ""]
         ELSE LET v == verify_proof(escrow_pda, rpc_ok) IN
              [pda |-> escrow_pda, seen |-> SeenStatus(escrow_pda), code |-> 200,
               verified |-> v.verified, status |-> v.status]
    /\ lastVerify' # lastVerify
    /\ UNCHANGED <<ledgerVars, claim, x402Vars, call, agent, x402client, appVars>>

\* POST /claim-payment, up to the end of step 1 (the paywall)
claim_payment_verify(r, escrow_pda, provider_address, rpc_ok) ==
    /\ claim[r].pc = "idle"
    /\ LET c == [claim[r] EXCEPT !.pda = escrow_pda, !.provider = provider_address,
                                 !.seen = SeenStatus(escrow_pda)]
           v == verify_proof(escrow_pda, rpc_ok) IN
         claim' = [claim EXCEPT ![r] =
            IF escrow_pda = <<"missing">> \/ provider_address = ""
            THEN Respond(c, 400, "", NoSig, 0)
            ELSE IF ~v.verified
            THEN Respond(c, 402, v.status, NoSig, 0)
            ELSE [c EXCEPT !.pc = "release"]]
    /\ UNCHANGED <<ledgerVars, lastVerify, x402Vars, call, agent, x402client, appVars>>

\* the journal file while one operation runs: every write succeeds ("ok"),
\* every write raises ("down"), or the first raises and the next succeeds
JournalStates == {"ok", "down", "recovers"}

\* release_payment_from_escrow / initialize_escrow_for_service after the library
\* call: the record log_transaction leaves in the journal ("" when none)
JournalRecord(returned, j) ==
    IF returned
    THEN (IF j = "ok" THEN "success" ELSE IF j = "recovers" THEN "failed" ELSE "")
    ELSE (IF j = "ok" THEN "failed" ELSE "")

\* ... and whether the operation raises: the library raised, or log_transaction
\* raised inside the try block (the except branch logs and re-raises)
JournalRaises(returned, j) == ~returned \/ j # "ok"

\* step 2: PaymentHandler.release_payment up to the end of
\* release_payment_from_escrow (release_payment_via_gateway and the journal
\* write inside it)
claim_payment_release(r, route, j) ==
    /\ claim[r].pc = "release"
    /\ Len(txs) + Delivered(route) <= MaxTx
    /\ LET tx == ReleaseTx(CLIENT_WALLET, claim[r].pda, claim[r].provider)
           sent == (Len(txs) + 1) .. (Len(txs) + Delivered(route)) IN
         /\ RoutePossible(tx, route)
         /\ txs' = Routed(tx, route)
         /\ claim' = [claim EXCEPT ![r] =
              IF ~JournalRaises(ReturnsSignature(route), j)
              THEN [claim[r] EXCEPT !.pc = "report", !.sent = sent, !.route = route,
                                    !.sig = LastSig(txs'),
                                    !.release_sig = LastSig(txs'),
                                    !.used_gateway = UsedGateway(route),
                                    !.journal = JournalRecord(TRUE, j)]
              ELSE Respond([claim[r] EXCEPT !.sent = sent, !.route = route,
                                            !.journal =
                                               JournalRecord(ReturnsSignature(route), j)],
                           500, "", NoSig, 0)]
    /\ UNCHANGED <<accounts, balance, lastVerify, x402Vars, call, agent, x402client, appVars>>

\* "Payment released: <amount> SOL" in the logs of a landed release
ReleasedAmountLogged(sig) ==
    IF txs[sig].result = "ok"
    THEN accounts[txs[sig].pda].amount \div 1000000
    ELSE DEFAULT_AMOUNT_TOKENS

\* rest of PaymentHandler.release_payment (get_transaction, log parsing) and
\* the response of /claim-payment
claim_payment_report(r, rpc_ok) ==
    /\ claim[r].pc = "report"
    /\ claim' = [claim EXCEPT ![r] =
         IF rpc_ok
         THEN Respond(claim[r], 200, "Payment released", claim[r].sig,
                      ReleasedAmountLogged(claim[r].sig))
         ELSE Respond(claim[r], 500, "", NoSig, 0)]
    /\ UNCHANGED <<ledgerVars, lastVerify, x402Vars, call, agent, x402client, appVars>>

\* --------------------------------------- x402 client: escrow_payment.py, client.py
NETWORK == "solana-devnet"

\* time.time() moves on
Tick ==
    /\ now < MaxClock
    /\ now' = now + 1
    /\ UNCHANGED <<ledgerVars, gatewayVars, envelopes, req, call, agent, x402client, appVars>>

\* the x_payment_data object of X402Client.request_with_payment
Envelope(tx, escrow_pda, service_id, task_hash_hex, nonce) ==
    [x402Version |-> 1, scheme |-> "escrow", network |-> NETWORK,
     serializedTransaction |-> tx, escrowPDA |-> escrow_pda,
     serviceId |-> service_id, taskHash |-> task_hash_hex, nonce |-> nonce]

\* create_escrow_transaction, and the envelope request_with_payment wraps its
\* result in; the caller passes what the 402 challenge told it, or anything else
create_escrow_transaction(client, provider_address, service_id, task_data, amount) ==
    /\ Len(envelopes) < MaxEnvelopes
    /\ LET nonce == now
           task_hash == Sha256(service_id \o ":" \o task_data \o ":" \o ToString(nonce))
           escrow_pda == derive_escrow_pda(client, provider_address, task_hash).addr
           tx == InitTx(client, provider_address, service_id, task_hash, amount) IN
         envelopes' = Append(envelopes,
                             Envelope(tx, escrow_pda, service_id, Hex(task_hash), nonce))
    /\ UNCHANGED <<ledgerVars, gatewayVars, now, req, call, agent, x402client, appVars>>

\* base64(json.dumps(envelope)) and what is not base64 or not JSON
XPaymentHeader(envelope) == <<"base64json", envelope>>
NoHeader == <<"absent">>
MissingField == <<"missing">>
MissingTx == Tx("missing", MissingField, "", "", 0, "", NoHash, NoHash)

\* what a sender can make of an envelope it has seen: one field changed
Tampered(e) ==
    {[e EXCEPT !.x402Version = 2], [e EXCEPT !.scheme = "exact"],
     [e EXCEPT !.network = "solana-mainnet"],
     [e EXCEPT !.taskHash = UpperHex(e.taskHash.digest)],
     [e EXCEPT !.taskHash = Hex(Sha256(SERVICE_ID \o ":" \o "Q4"))],
     [e EXCEPT !.taskHash = Hex(NoHash)],
     [e EXCEPT !.nonce = 0,
               !.taskHash = Hex(Sha256(SERVICE_ID \o ":" \o "Q4" \o ":" \o ToString(0)))],
     [e EXCEPT !.serializedTransaction = MissingTx],
     [e EXCEPT !.escrowPDA = MissingField],
     [e EXCEPT !.escrowPDA = <<"wallet", CLIENT_WALLET>>]}
    \cup {[e EXCEPT !.escrowPDA = envelopes[i].escrowPDA] : i \in DOMAIN envelopes}

Headers ==
    {NoHeader, <<"notbase64">>, <<"notjson">>}
    \cup {XPaymentHeader(envelopes[i]) : i \in DOMAIN envelopes}
    \cup UNION {{XPaymentHeader(t) : t \in Tampered(envelopes[i])} : i \in DOMAIN envelopes}

\* ------------------------------------- x402 provider: payment_verifier.py, server.py
Requests == 1..MaxRequests

IdleRequest ==
    [pc |-> "idle", header |-> NoHeader, task_data |-> "", existed |-> FALSE,
     replay |-> FALSE, sent |-> {}, polls |-> 0, code |-> 0, error |-> "",
     kind |-> "", challenge |-> <<>>]

\* what a request to /analyze carries as its data: a "data" value, none (GET
\* without the parameter, POST of an object without the key), or a POST body
\* announced as JSON that request.get_json() cannot parse
NoData == "<none>"
BadBody == "<bad json>"
RequestDatas == TaskDatas \cup {NoData, BadBody}

\* data.get('data', 'Default analysis task')
DEFAULT_TASK == "Default analysis task"
TaskDataOf(data) == IF data = NoData THEN DEFAULT_TASK ELSE data

\* the X-Payment header as sent: absent, not decodable, an envelope of another
\* version, scheme or network, or an envelope of this protocol
HeaderKind(x_payment) ==
    IF x_payment = NoHeader THEN "absent"
    ELSE IF x_payment[1] # "base64json" THEN "undecodable"
    ELSE IF \/ x_payment[2].x402Version # 1
            \/ x_payment[2].scheme # "escrow"
            \/ x_payment[2].network # NETWORK
    THEN "mismatch"
    ELSE "envelope"

\* the "payment" object of the 402 answer to a request without X-Payment
PaymentChallenge(task_data) ==
    [recipient |-> PROVIDER_WALLET, escrowProgram |-> "escrow",
     amount |-> SERVICE_PRICE_LAMPORTS, token |-> "SOL", network |-> NETWORK,
     serviceId |-> SERVICE_ID, taskData |-> task_data]

\* verify_x_payment_header without the version, scheme and network checks
verify_header_fields_NoSchemeCheck(x_payment_header, service_id, task_data) ==
    IF x_payment_header[1] = "notbase64" THEN "Invalid base64 encoding in X-Payment header"
    ELSE IF x_payment_header[1] = "notjson" THEN "Invalid JSON in X-Payment header"
    ELSE LET payment_data == x_payment_header[2] IN
         IF payment_data.escrowPDA = MissingField THEN "Missing escrowPDA in payload"
         ELSE IF payment_data.taskHash = Hex(NoHash) THEN "Missing taskHash in payload"
         ELSE IF payment_data.serializedTransaction = MissingTx
         THEN "Missing serializedTransaction in payload"
         ELSE IF payment_data.nonce = 0 THEN "Missing nonce in payload"
         ELSE IF payment_data.taskHash
                    # compute_task_hash(service_id, task_data, payment_data.nonce)
         THEN "Task hash mismatch"
         ELSE "ok"

\* PaymentVerifier.verify_x_payment_header up to the task-hash check: "ok" or
\* the error message it returns
verify_header_fields(x_payment_header, service_id, task_data) ==
    IF x_payment_header[1] = "notbase64" THEN "Invalid base64 encoding in X-Payment header"
    ELSE IF x_payment_header[1] = "notjson" THEN "Invalid JSON in X-Payment header"
    ELSE LET payment_data == x_payment_header[2] IN
         IF payment_data.x402Version # 1 THEN "Invalid x402 version"
         ELSE IF payment_data.scheme # "escrow" THEN "Invalid payment scheme"
         ELSE IF payment_data.network # NETWORK THEN "Invalid network"
         ELSE IF payment_data.escrowPDA = MissingField THEN "Missing escrowPDA in payload"
         ELSE IF payment_data.taskHash = Hex(NoHash) THEN "Missing taskHash in payload"
         ELSE IF payment_data.serializedTransaction = MissingTx
         THEN "Missing serializedTransaction in payload"
         ELSE IF payment_data.nonce = 0 THEN "Missing nonce in payload"
         ELSE IF payment_data.taskHash
                    # compute_task_hash(service_id, task_data, payment_data.nonce)
         THEN "Task hash mismatch"
         ELSE "ok"

\* "if existing_account.value" of verify_x_payment_header, answering never
escrow_already_exists_Never(escrow_pda) == FALSE

\* "if existing_account.value" of verify_x_payment_header
escrow_already_exists(escrow_pda) == get_account_info(escrow_pda).exists

\* _verify_escrow_on_chain that takes the account for granted
verify_escrow_on_chain_NoRead(escrow_pda, expected_amount, provider_pubkey, rpc_ok) == "ok"

\* PaymentVerifier._verify_escrow_on_chain: (is_valid, error)
verify_escrow_on_chain(escrow_pda, expected_amount, provider_pubkey, rpc_ok) ==
    IF ~rpc_ok THEN "On-chain verification failed"
    ELSE IF ~get_account_info(escrow_pda).exists THEN "Escrow account does not exist"
    ELSE "ok"

\* the 402 answers of /analyze: the challenge, or "Payment verification failed"
Rejected(q, error) == [q EXCEPT !.pc = "done", !.code = 402, !.error = error]

WasAccepted(header, task_data) ==
    \E r \in Requests :
        /\ req[r].pc = "done" /\ req[r].code = 200
        /\ req[r].header = header /\ req[r].task_data = task_data

\* /analyze up to the first ledger read of verify_x_payment_header
analyze_receive(r, x_payment, data, rpc_ok) ==
    /\ req[r].pc = "idle"
    /\ LET task_data == TaskDataOf(data)
           q == [req[r] EXCEPT !.task_data = task_data, !.kind = HeaderKind(x_payment)]
           error == verify_header_fields(x_payment, SERVICE_ID, task_data) IN
         req' = [req EXCEPT ![r] =
            IF data = BadBody
            THEN [req[r] EXCEPT !.pc = "done", !.code = 400, !.error = "Bad Request",
                                !.kind = HeaderKind(x_payment)]
            ELSE IF x_payment = NoHeader
            THEN [Rejected(q, "Payment required") EXCEPT
                     !.challenge = PaymentChallenge(task_data)]
            ELSE IF error # "ok" THEN Rejected(q, error)
            ELSE IF ~rpc_ok THEN Rejected(q, "Payment verification error")
            ELSE [q EXCEPT !.header = x_payment,
                           !.replay = WasAccepted(x_payment, task_data),
                           !.existed = escrow_already_exists(x_payment[2].escrowPDA),
                           !.pc = IF escrow_already_exists(x_payment[2].escrowPDA)
                                  THEN "verify" ELSE "submit"]]
    /\ UNCHANGED <<ledgerVars, gatewayVars, now, envelopes, call, agent, x402client, appVars>>

\* send_raw_transaction(skip_preflight=False): the RPC node simulates the
\* transaction and raises unless the program would accept it
analyze_submit(r, rpc_ok) ==
    /\ req[r].pc = "submit"
    /\ LET tx == req[r].header[2].serializedTransaction IN
         IF rpc_ok /\ LedgerCheck(tx) = "ok"
         THEN /\ Len(txs) < MaxTx
              /\ txs' = Append(txs, tx)
              /\ req' = [req EXCEPT ![r].pc = "poll", ![r].sent = {Len(txs) + 1}]
         ELSE /\ txs' = txs
              /\ req' = [req EXCEPT ![r] = Rejected(@, "Failed to submit transaction")]
    /\ UNCHANGED <<accounts, balance, gatewayVars, now, envelopes, call, agent, x402client, appVars>>

\* one round of the confirmation loop: sleep, then read the account
analyze_poll(r, rpc_ok) ==
    /\ req[r].pc = "poll"
    /\ req' = [req EXCEPT ![r] =
         IF ~rpc_ok THEN Rejected(@, "Failed to submit transaction")
         ELSE IF get_account_info(@.header[2].escrowPDA).exists
                 \/ @.polls + 1 = CONFIRM_POLLS
         THEN [@ EXCEPT !.pc = "verify"]
         ELSE [@ EXCEPT !.polls = @ + 1]]
    /\ UNCHANGED <<ledgerVars, gatewayVars, now, envelopes, call, agent, x402client, appVars>>

\* _verify_escrow_on_chain, then the rest of /analyze: the work and the 200
analyze_verify(r, rpc_ok) ==
    /\ req[r].pc = "verify"
    /\ LET error == verify_escrow_on_chain(req[r].header[2].escrowPDA,
                                           SERVICE_PRICE_LAMPORTS, PROVIDER_WALLET, rpc_ok) IN
         req' = [req EXCEPT ![r] =
            IF error # "ok" THEN Rejected(@, error)
            ELSE [@ EXCEPT !.pc = "done", !.code = 200]]
    /\ UNCHANGED <<ledgerVars, gatewayVars, now, envelopes, call, agent, x402client, appVars>>

\* ------------------- client library: escrow_client.py, gateway_escrow_client.py
InitCalls == 1..MaxInitCalls

\* the signature initialize_escrow_via_gateway returns when it sends nothing
ESCROW_ALREADY_EXISTS == -1

IdleCall ==
    [pc |-> "idle", provider |-> "", amount |-> 0, service_id |-> "",
     task_data |-> "", pda |-> <<"missing">>, seen |-> -1, after |-> {},
     sig |-> NoSig, used_gateway |-> FALSE, sent |-> {}, raised |-> FALSE,
     route |-> "", svc |-> "", journal |-> ""]

\* EscrowClient.check_escrow_exists: can_reuse (the address is derive_escrow_pda's)
check_escrow_exists(client_pubkey, provider_pubkey, task_hash, rpc_ok) ==
    LET escrow_pda == derive_escrow_pda(client_pubkey, provider_pubkey, task_hash).addr
        account_info == get_account_info(escrow_pda) IN
    IF ~rpc_ok THEN FALSE
    ELSE IF ~account_info.exists \/ account_info.dataLen = 0 THEN FALSE
    ELSE IF account_info.dataLen < MIN_DATA_LEN THEN FALSE
    ELSE EscrowDataByte(accounts[escrow_pda], STATUS_OFFSET) = 0

\* initialize_escrow_via_gateway up to "if exists: return"
initialize_escrow_check(k, provider_pubkey, amount, service_id, task_data, rpc_ok) ==
    /\ call[k].pc = "idle"
    /\ LET task_hash == hash_task(task_data)
           escrow_pda == derive_escrow_pda(CLIENT_WALLET, provider_pubkey, task_hash).addr
           exists == check_escrow_exists(CLIENT_WALLET, provider_pubkey, task_hash, rpc_ok)
           c == [call[k] EXCEPT !.provider = provider_pubkey, !.amount = amount,
                                !.service_id = service_id, !.task_data = task_data,
                                !.pda = escrow_pda, !.seen = SeenStatus(escrow_pda),
                                !.after = {j \in InitCalls : call[j].pc = "done"}] IN
         call' = [call EXCEPT ![k] =
            IF exists
            THEN [c EXCEPT !.pc = "done", !.sig = ESCROW_ALREADY_EXISTS,
                           !.used_gateway = FALSE]
            ELSE [c EXCEPT !.pc = "send"]]
    /\ UNCHANGED <<ledgerVars, gatewayVars, x402Vars, agent, x402client, appVars>>

\* the rest of initialize_escrow_via_gateway: the initialize transaction for the
\* derived address goes to the gateway, then to RPC with skip_preflight; the
\* call returns the signature without waiting for the transaction to land
initialize_escrow_send(k, route) ==
    /\ call[k].pc = "send"
    /\ Len(txs) + Delivered(route) <= MaxTx
    /\ LET tx == InitTx(CLIENT_WALLET, call[k].provider, call[k].service_id,
                        hash_task(call[k].task_data), call[k].amount)
           sent == (Len(txs) + 1) .. (Len(txs) + Delivered(route)) IN
         /\ RoutePossible(tx, route)
         /\ txs' = Routed(tx, route)
         /\ call' = [call EXCEPT ![k] =
              IF ReturnsSignature(route)
              THEN [call[k] EXCEPT !.pc = "done", !.sent = sent, !.sig = LastSig(txs'),
                                   !.route = route,
                                   !.used_gateway = UsedGateway(route)]
              ELSE [call[k] EXCEPT !.pc = "done", !.sent = sent, !.raised = TRUE,
                                   !.route = route]]
    /\ UNCHANGED <<accounts, balance, gatewayVars, x402Vars, agent, x402client, appVars>>

\* initialize_escrow_for_service after initialize_escrow_via_gateway: the
\* sentinel is handed back unlogged; otherwise the journal record is written
\* inside the try block and the except branch logs the failure and re-raises
initialize_escrow_for_service(k, j) ==
    /\ call[k].pc = "done"
    /\ call[k].svc = ""
    /\ call' = [call EXCEPT ![k] =
         IF ~call[k].raised /\ call[k].sig = ESCROW_ALREADY_EXISTS
         THEN [call[k] EXCEPT !.svc = "returned"]
         ELSE [call[k] EXCEPT
                 !.svc = IF JournalRaises(~call[k].raised, j)
                         THEN "raised" ELSE "returned",
                 !.journal = JournalRecord(~call[k].raised, j)]]
    /\ UNCHANGED <<ledgerVars, gatewayVars, x402Vars, agent, x402client, appVars>>

\* -------------------------------------------- x402 client: request_with_payment
\* the call's first request is the provider's request 1, its request with the
\* X-Payment header is the provider's request 2
IdleClient ==
    [pc |-> "idle", data |-> "", first_code |-> 0, posts |-> 0, paid |-> 0,
     header |-> NoHeader, status |-> 0, raised |-> FALSE]

\* "if resp.status_code != 402: return", negated, answering never
NeedsPayment_Never(status_code) == FALSE

\* "if resp.status_code != 402: return", negated
NeedsPayment(status_code) == status_code = 402

\* "if not all([recipient, amount, service_id])", negated
CompleteChallenge(payment_info) ==
    /\ DOMAIN payment_info = DOMAIN PaymentChallenge("")
    /\ payment_info.recipient # ""
    /\ payment_info.amount # 0
    /\ payment_info.serviceId # ""

\* step 1: the request without X-Payment goes out
request_with_payment_send(data) ==
    /\ x402client.pc = "idle"
    /\ x402client' = [x402client EXCEPT !.pc = "first", !.data = data, !.posts = 1]
    /\ UNCHANGED <<ledgerVars, gatewayVars, x402Vars, call, agent, appVars>>

\* the provider takes the request the client has in flight
request_with_payment_served(rpc_ok) ==
    \/ /\ x402client.pc = "first"
       /\ analyze_receive(1, NoHeader, x402client.data, rpc_ok)
    \/ /\ x402client.pc = "retry"
       /\ analyze_receive(2, x402client.header, x402client.data, rpc_ok)

\* requests.get / requests.post raises: the call raises with it
request_with_payment_raise ==
    /\ x402client.pc \in {"first", "retry"}
    /\ x402client' = [x402client EXCEPT !.pc = "done", !.raised = TRUE]
    /\ UNCHANGED <<ledgerVars, gatewayVars, x402Vars, call, agent, appVars>>

\* step 2: the first answer; anything but a 402 is handed back, an incomplete
\* challenge raises
request_with_payment_challenge ==
    /\ x402client.pc = "first"
    /\ req[1].pc = "done"
    /\ x402client' =
         IF ~NeedsPayment(req[1].code)
         THEN [x402client EXCEPT !.pc = "done", !.first_code = req[1].code,
                                 !.status = req[1].code]
         ELSE IF ~CompleteChallenge(req[1].challenge)
         THEN [x402client EXCEPT !.pc = "done", !.first_code = req[1].code,
                                 !.raised = TRUE]
         ELSE [x402client EXCEPT !.pc = "pay", !.first_code = req[1].code]
    /\ UNCHANGED <<ledgerVars, gatewayVars, x402Vars, call, agent, appVars>>

\* step 3: create_escrow_transaction with what the challenge says
request_with_payment_create ==
    /\ x402client.pc = "pay"
    /\ envelopes = <<>>
    /\ create_escrow_transaction(CLIENT_WALLET, req[1].challenge.recipient,
                                 req[1].challenge.serviceId, req[1].challenge.taskData,
                                 req[1].challenge.amount)

\* steps 4 to 6: the envelope becomes the X-Payment header of the second request
request_with_payment_retry ==
    /\ x402client.pc = "pay"
    /\ envelopes # <<>>
    /\ x402client' = [x402client EXCEPT
         !.pc = "retry", !.header = XPaymentHeader(envelopes[Len(envelopes)]),
         !.posts = @ + 1, !.paid = @ + 1]
    /\ UNCHANGED <<ledgerVars, gatewayVars, x402Vars, call, agent, appVars>>

\* the second answer is handed back whatever its status
request_with_payment_result ==
    /\ x402client.pc = "retry"
    /\ req[2].pc = "done"
    /\ x402client' = [x402client EXCEPT !.pc = "done", !.status = req[2].code]
    /\ UNCHANGED <<ledgerVars, gatewayVars, x402Vars, call, agent, appVars>>

\* ------------------------------------------------------------ provider agent
\* GatewayClient.claim_payment: attempt is the loop variable; the request of
\* attempt i is the gateway's claim i + 1; job is the marketplace job's status
IdleAgent ==
    [pc |-> "idle", escrow_pda |-> <<"missing">>, max_retries |-> 0, attempt |-> 0,
     request_id |-> FALSE, job |-> "", warnings |-> 0, code |-> 0,
     success |-> FALSE, tx |-> NoSig, error |-> ""]

\* _create_marketplace_request: the request id, and the job's status after the
\* "in_progress" update inside it
claim_payment_start(escrow_pda, tracked, create_ok, update_ok, max_retries) ==
    /\ agent.pc = "idle"
    /\ agent' = [agent EXCEPT
         !.pc = "post", !.escrow_pda = escrow_pda, !.max_retries = max_retries,
         !.request_id = tracked /\ create_ok,
         !.job = IF tracked /\ create_ok
                 THEN (IF update_ok THEN "in_progress" ELSE "pending") ELSE "",
         !.warnings = IF tracked /\ (~create_ok \/ ~update_ok) THEN 1 ELSE 0]
    /\ UNCHANGED <<ledgerVars, gatewayVars, x402Vars, call, x402client, appVars>>

\* the gateway takes the request of the current or of an abandoned attempt
claim_payment_post(r, rpc_ok) ==
    /\ agent.pc # "idle"
    /\ r <= agent.attempt + 1
    /\ claim_payment_verify(r, agent.escrow_pda, PROVIDER_WALLET, rpc_ok)

\* the result of claim_payment on a 200 answer
ClaimSucceeds_UpdateFatal(status, tracked, updated) ==
    status = 200 /\ (tracked => updated)

ClaimSucceeds(status, tracked, updated) == status = 200

\* a loop that goes on to the next attempt whatever max_retries is
Retry_Unbounded(error) == [agent EXCEPT !.attempt = @ + 1]

\* next attempt, or the end of the loop
Retry(error) ==
    IF agent.attempt < agent.max_retries - 1
    THEN [agent EXCEPT !.attempt = @ + 1]
    ELSE [agent EXCEPT !.pc = "done", !.success = FALSE, !.error = error]

\* the request raised (connection, timeout, body that is not JSON)
claim_payment_exception ==
    /\ agent.pc = "post"
    /\ agent' = [Retry("exception") EXCEPT !.code = 0]
    /\ UNCHANGED <<ledgerVars, gatewayVars, x402Vars, call, x402client, appVars>>

\* the gateway's answer to the current attempt arrives
claim_payment_response(update_ok) ==
    /\ agent.pc = "post"
    /\ agent.attempt + 1 \in Claims
    /\ LET c == claim[agent.attempt + 1] IN
         /\ c.pc = "done"
         /\ agent' =
              IF c.code = 200
              THEN [agent EXCEPT
                      !.pc = "done", !.code = 200, !.tx = c.sig,
                      !.job = IF agent.request_id /\ update_ok THEN "completed" ELSE @,
                      !.warnings = IF agent.request_id /\ ~update_ok THEN @ + 1 ELSE @,
                      !.success = ClaimSucceeds(200, agent.request_id, update_ok),
                      !.error = IF ClaimSucceeds(200, agent.request_id, update_ok)
                                THEN "" ELSE "marketplace"]
              ELSE IF c.code = 402
              THEN [Retry("not verified") EXCEPT !.code = 402]
              ELSE [agent EXCEPT !.pc = "done", !.code = c.code, !.success = FALSE,
                                 !.error = "error"]
    /\ UNCHANGED <<ledgerVars, gatewayVars, x402Vars, call, x402client, appVars>>

\* ------------------------------------- SDK: payments.py, async_payments.py
\* PaymentClient (requests with a urllib3 Retry adapter) and AsyncPaymentClient
\* (httpx with the retry loop of _request)
Flavours == {"sync", "async"}

\* the answers to POST /claim-payment: a status, or 0 for a network error
NETWORK_ERROR == 0
Answers == {NETWORK_ERROR, 200, 402, 404, 500, 503}

\* status_forcelist / _STATUS_RETRY
STATUS_RETRY == {429, 500, 502, 503, 504}

\* attempt: the 402 retries of claim_payment; tries: the transport retries of
\* the request in flight; sent, after402: requests sent, and sent after a 402
IdleSdk ==
    [pc |-> "idle", retry_402 |-> FALSE, max_retries |-> 0, config_max_retries |-> 0,
     attempt |-> 0, tries |-> 0, sent |-> 0, seen402 |-> FALSE, after402 |-> 0,
     outcome |-> ""]

\* claim_payment sends its first request
sdk_claim_payment(f, retry_402, max_retries, config_max_retries) ==
    /\ sdk[f].pc = "idle"
    /\ sdk' = [sdk EXCEPT ![f] =
         [IdleSdk EXCEPT !.pc = "wait", !.retry_402 = retry_402,
                         !.max_retries = max_retries,
                         !.config_max_retries = config_max_retries, !.sent = 1]]
    /\ UNCHANGED <<ledgerVars, gatewayVars, x402Vars, call, agent, x402client, market,
                   ata,
                   analyst,
                   store,
                   buyer>>

\* "except PaymentRequired: if not retry_402 or attempt >= max_retries: raise",
\* negated, without the flag
Retry402_IgnoresFlag(retry_402, attempt, max_retries) == attempt < max_retries

\* "except PaymentRequired: if not retry_402 or attempt >= max_retries: raise",
\* negated
Retry402(retry_402, attempt, max_retries) == retry_402 /\ attempt < max_retries

\* one more request goes out
Resend(c) ==
    [c EXCEPT !.sent = @ + 1, !.after402 = IF c.seen402 THEN @ + 1 ELSE @]

Raise(c, error) == [c EXCEPT !.pc = "done", !.outcome = error]

\* an answer arrives: _handle / _request, then claim_payment's except clause
sdk_answer(f, status) ==
    /\ sdk[f].pc = "wait"
    /\ LET c == sdk[f] IN
       sdk' = [sdk EXCEPT ![f] =
         IF status = NETWORK_ERROR
         THEN (IF c.tries < c.config_max_retries
               THEN Resend([c EXCEPT !.tries = @ + 1])
               ELSE Raise(c, IF f = "async" THEN "GatewayError" ELSE "ConnectionError"))
         ELSE IF status = 402
         THEN (IF Retry402(c.retry_402, c.attempt, c.max_retries)
               THEN Resend([c EXCEPT !.seen402 = TRUE, !.attempt = @ + 1, !.tries = 0])
               ELSE Raise([c EXCEPT !.seen402 = TRUE], "PaymentRequired"))
         ELSE IF status \in STATUS_RETRY /\ c.tries < c.config_max_retries
         THEN Resend([c EXCEPT !.tries = @ + 1])
         ELSE IF status \in 200 .. 299
         THEN [c EXCEPT !.pc = "done", !.outcome = "ok"]
         ELSE Raise(c, "GatewayError")]
    /\ UNCHANGED <<ledgerVars, gatewayVars, x402Vars, call, agent, x402client, market,
                   ata,
                   analyst,
                   store,
                   buyer>>

\* --------------------------------------------- marketplace: utils/marketplace.py
AgentAddresses == {"agent1", "agent2"}
AgentNames == {"Alpha", "Beta"}
AgentProfile(agent_address, agent_name) ==
    [agent_address |-> agent_address, agent_name |-> agent_name,
     agent_type |-> "provider", services_offered |-> <<>>]
Profiles == {AgentProfile(a, n) : a \in AgentAddresses, n \in AgentNames}

MarketServiceIds == {"svc1", "svc2"}
Categories == {"Budget", "Premium"}
Prices == {5, 15}
ServiceListing(service_id, price_sol, provider_address, category, active) ==
    [service_id |-> service_id, price_sol |-> price_sol,
     provider_address |-> provider_address, category |-> category, active |-> active]
Listings ==
    {ServiceListing(i, p, a, c, b) :
        i \in MarketServiceIds, p \in Prices, a \in AgentAddresses, c \in Categories,
        b \in BOOLEAN}

\* Python's None for a str and for a float argument
None == "<None>"
NoPrice == -1

\* agents, services, service_categories: the registry's dicts; agent_calls,
\* service_calls: the register calls made and what each returned; query,
\* results: the last search_services call, made after query.at register_service
\* calls, and the list it returned
EmptyRegistry ==
    [agents |-> <<>>, services |-> <<>>, service_categories |-> <<>>,
     agent_calls |-> <<>>, service_calls |-> <<>>,
     query |-> [asked |-> FALSE, at |-> 0, category |-> None, max_price |-> NoPrice,
                provider_address |-> None],
     results |-> <<>>]

\* self.agents[profile.agent_address] = profile, also over an existing entry
Store_Overwrite(agents, profile) ==
    [a \in DOMAIN agents \cup {profile.agent_address} |->
        IF a = profile.agent_address THEN profile ELSE agents[a]]

\* "if profile.agent_address in self.agents: return False", then the store
Store(agents, profile) ==
    IF profile.agent_address \in DOMAIN agents
    THEN agents
    ELSE [a \in DOMAIN agents \cup {profile.agent_address} |->
             IF a = profile.agent_address THEN profile ELSE agents[a]]

register_agent(profile) ==
    /\ Len(market.agent_calls) < MaxAgentCalls
    /\ market' = [market EXCEPT
         !.agents = Store(market.agents, profile),
         !.agent_calls =
            Append(@, [profile |-> profile,
                       returned |-> profile.agent_address \notin DOMAIN market.agents])]
    /\ UNCHANGED <<ledgerVars, gatewayVars, x402Vars, call, agent, x402client, sdk, ata,
                   analyst,
                   store,
                   buyer>>

register_service(service) ==
    /\ Len(market.service_calls) < MaxServiceCalls
    /\ LET known == service.service_id \in DOMAIN market.services
           sid == service.service_id
           cat == service.category IN
         market' = [market EXCEPT
            !.service_calls = Append(@, [service |-> service, returned |-> ~known]),
            !.services =
               IF known THEN @
               ELSE [i \in DOMAIN @ \cup {sid} |-> IF i = sid THEN service ELSE @[i]],
            !.service_categories =
               IF known THEN @
               ELSE [c \in DOMAIN @ \cup {cat} |->
                        IF c = cat
                        THEN Append(IF c \in DOMAIN @ THEN @[c] ELSE <<>>, sid)
                        ELSE @[c]],
            !.agents =
               IF known \/ service.provider_address \notin DOMAIN @ THEN @
               ELSE [@ EXCEPT ![service.provider_address].services_offered =
                                Append(@, sid)]]
    /\ UNCHANGED <<ledgerVars, gatewayVars, x402Vars, call, agent, x402client, sdk, ata,
                   analyst,
                   store,
                   buyer>>

\* list(self.services.values()): the services in insertion order
RECURSIVE ServicesInOrder(_,_)
ServicesInOrder(calls, seen) ==
    IF calls = <<>> THEN <<>>
    ELSE LET sid == Head(calls).service.service_id IN
         IF sid \in seen THEN ServicesInOrder(Tail(calls), seen)
         ELSE <<sid>> \o ServicesInOrder(Tail(calls), seen \cup {sid})

\* the filter loop of search_services
RECURSIVE FilterServices(_,_,_)
FilterServices(sids, max_price, provider_address) ==
    IF sids = <<>> THEN <<>>
    ELSE LET service == market.services[Head(sids)]
             rest == FilterServices(Tail(sids), max_price, provider_address) IN
         IF ~service.active THEN rest
         ELSE IF max_price # NoPrice /\ service.price_sol > max_price THEN rest
         ELSE IF provider_address \notin {None, ""}
                 /\ service.provider_address # provider_address THEN rest
         ELSE <<Head(sids)>> \o rest

\* "if category:" taking the whole registry whatever the category
Candidates_IgnoreCategory(category) ==
    ServicesInOrder(market.service_calls, {})

\* "if category:" and the two ways the candidates are collected
Candidates(category) ==
    IF category \notin {None, ""}
    THEN (IF category \in DOMAIN market.service_categories
          THEN SelectSeq(market.service_categories[category],
                         LAMBDA sid : sid \in DOMAIN market.services)
          ELSE <<>>)
    ELSE ServicesInOrder(market.service_calls, {})

search_services(category, max_price, provider_address) ==
    /\ market' = [market EXCEPT
         !.query = [asked |-> TRUE, at |-> Len(market.service_calls),
                    category |-> category, max_price |-> max_price,
                    provider_address |-> provider_address],
         !.results = FilterServices(Candidates(category), max_price, provider_address)]
    /\ UNCHANGED <<ledgerVars, gatewayVars, x402Vars, call, agent, x402client, sdk, ata,
                   analyst,
                   store,
                   buyer>>

\* ------------------------------------------------------------ specification
\* no escrow token account exists, nothing was sent, no call is under way
NoTokenAccounts ==
    [exists |-> {}, sent |-> <<>>, svc |-> [pc |-> "idle", task_data |-> ""]]

\* escrow_pda_str = None, ctx.storage "processed_escrow_pda" = None
NoEscrowPda == <<"None">>

\* the provider agent after startup: nothing processed, no message being handled
IdleAnalyst ==
    [pc |-> "idle", escrow_pda_str |-> NoEscrowPda,
     processed_escrow_pda |-> NoEscrowPda,
     proof_signature |-> NoSig, job |-> 0, log |-> <<>>]

\* MarketplaceDatabase._init_files: no provider, no request
EmptyStore ==
    [providers |-> <<>>, requests |-> <<>>, applied |-> <<>>, counted |-> <<>>,
     asked |-> <<>>, updates |-> 0]

\* agent_b: ctx.storage at startup ("escrow_initialized" False); k is the library
\* call of the handler that is running, attempts and handled count the calls
\* started and the pricing messages taken from the mailbox in the session
IdleBuyer ==
    [pc |-> "idle", k |-> 0, escrow_initialized |-> FALSE, attempts |-> 0,
     handled |-> 0]

Init ==
    /\ accounts = <<>>
    /\ balance = [w \in Wallets |-> INITIAL_TOKENS]
    /\ txs = <<>>
    /\ claim = [r \in Claims |-> IdleClaim]
    /\ lastVerify = [pda |-> <<"missing">>, seen |-> -1, code |-> 0,
                     verified |-> FALSE, status |-> ""]
    /\ now = 1
    /\ envelopes = <<>>
    /\ req = [r \in Requests |-> IdleRequest]
    /\ call = [k \in InitCalls |-> IdleCall]
    /\ agent = IdleAgent
    /\ x402client = IdleClient
    /\ sdk = [f \in Flavours |-> IdleSdk]
    /\ market = EmptyRegistry
    /\ ata = NoTokenAccounts
    /\ analyst = IdleAnalyst
    /\ store = EmptyStore
    /\ buyer = IdleBuyer

\* escrow addresses of the tasks the gateway is asked about
GatewayPdas ==
    {derive_escrow_pda(CLIENT_WALLET, p, hash_task("Q4")).addr : p \in {PROVIDER_WALLET}}
ClaimAddresses ==
    GatewayPdas \cup {<<"missing">>, <<"invalid">>, <<"wallet", CLIENT_WALLET>>}

\* transactions of the parties around the gateway: the client opens, cancels
\* or releases the escrow of task "Q4", a provider submits its proof
LedgerTxsAbout(pdas) ==
    {InitTx(CLIENT_WALLET, p, SID_SHORT, hash_task("Q4"), a) :
        p \in {q \in Providers : derive_escrow_pda(CLIENT_WALLET, q, hash_task("Q4")).addr \in pdas},
        a \in Amounts}
    \cup {ProofTx(w, pda, "result") : w \in Providers, pda \in pdas}
    \cup {CancelTx(CLIENT_WALLET, pda) : pda \in pdas}
    \cup {ReleaseTx(CLIENT_WALLET, pda, PROVIDER_WALLET) : pda \in pdas}

NextGateway ==
    \/ \E tx \in LedgerTxsAbout(GatewayPdas) : LedgerExecute(tx)
    \/ \E sig \in DOMAIN txs : LedgerProcess(sig)
    \/ \E r \in Claims, a \in ClaimAddresses, p \in {PROVIDER_WALLET, ""}, ok \in BOOLEAN :
         claim_payment_verify(r, a, p, ok)
    \/ \E r \in Claims, route \in Routes, j \in JournalStates :
          claim_payment_release(r, route, j)
    \/ \E r \in Claims, ok \in BOOLEAN : claim_payment_report(r, ok)

SpecGateway == Init /\ [][NextGateway]_vars

VerifyPdas ==
    {derive_escrow_pda(CLIENT_WALLET, p, hash_task("Q4")).addr : p \in Providers}

NextVerify ==
    \/ \E tx \in LedgerTxsAbout(VerifyPdas) : LedgerExecute(tx)
    \/ \E a \in ClaimAddresses \cup VerifyPdas, ok \in BOOLEAN : verify_proof_endpoint(a, ok)

SpecVerify == Init /\ [][NextVerify]_vars

NextX402 ==
    \/ Tick
    \/ \E a \in Amounts :
         create_escrow_transaction(CLIENT_WALLET, PROVIDER_WALLET, SERVICE_ID, "Q4", a)
    \/ \E r \in Requests, h \in Headers, data \in RequestDatas, ok \in BOOLEAN :
         analyze_receive(r, h, data, ok)
    \/ \E r \in Requests, ok \in BOOLEAN : analyze_submit(r, ok)
    \/ \E r \in Requests, ok \in BOOLEAN : analyze_poll(r, ok)
    \/ \E r \in Requests, ok \in BOOLEAN : analyze_verify(r, ok)
    \/ \E sig \in DOMAIN txs : LedgerProcess(sig)

SpecX402 == Init /\ [][NextX402]_vars

\* /analyze is one coroutine: each of its awaits returns or raises, so a request
\* that is being verified takes its next step
FairX402 ==
    \A r \in Requests :
        /\ WF_vars(\E ok \in BOOLEAN : analyze_submit(r, ok))
        /\ WF_vars(\E ok \in BOOLEAN : analyze_poll(r, ok))
        /\ WF_vars(\E ok \in BOOLEAN : analyze_verify(r, ok))

SpecX402Fair == SpecX402 /\ FairX402

\* escrow addresses the library calls can derive
InitPdas ==
    {derive_escrow_pda(CLIENT_WALLET, PROVIDER_WALLET, hash_task(td)).addr : td \in TaskDatas}

\* what the provider and the client do to an escrow once it is open
LedgerTxsAfterInit(pdas) ==
    {ProofTx(PROVIDER_WALLET, pda, "result") : pda \in pdas}
    \cup {CancelTx(CLIENT_WALLET, pda) : pda \in pdas}
    \cup {ReleaseTx(CLIENT_WALLET, pda, PROVIDER_WALLET) : pda \in pdas}

NextInit ==
    \/ \E k \in InitCalls, a \in Amounts, sid \in ServiceIds, td \in TaskDatas,
          ok \in BOOLEAN :
         initialize_escrow_check(k, PROVIDER_WALLET, a, sid, td, ok)
    \/ \E k \in InitCalls, route \in Routes : initialize_escrow_send(k, route)
    \/ \E tx \in LedgerTxsAfterInit(InitPdas) : LedgerExecute(tx)
    \/ \E sig \in DOMAIN txs : LedgerProcess(sig)

SpecInit == Init /\ [][NextInit]_vars

\* the escrow of task "Q4" and everything any wallet can try on it
LedgerPdas ==
    {derive_escrow_pda(CLIENT_WALLET, PROVIDER_WALLET, hash_task("Q4")).addr}
ProofDatas == {"result", "other"}
LedgerAttempts(pdas) ==
    {ReleaseTx(w, pda, PROVIDER_WALLET) : w \in Wallets, pda \in pdas}
    \cup {CancelTx(w, pda) : w \in Wallets, pda \in pdas}
LedgerOpens ==
    {InitTx(CLIENT_WALLET, PROVIDER_WALLET, SID_SHORT, hash_task("Q4"),
            SERVICE_PRICE_LAMPORTS)}

NextLedger ==
    \/ \E tx \in LedgerOpens \cup LedgerAttempts(LedgerPdas)
              \cup {ProofTx(w, pda, d) : w \in Wallets, pda \in LedgerPdas, d \in ProofDatas} :
         LedgerExecute(tx)
    \/ \E tx \in LedgerAttempts(LedgerPdas) : LedgerSubmit(tx)
    \/ \E w \in Wallets, pda \in LedgerPdas, d \in ProofDatas :
         submit_proof_with_pda(w, pda, d)
    \/ \E sig \in DOMAIN txs : LedgerProcess(sig)

SpecLedger == Init /\ [][NextLedger]_vars

\* one task through the library and the gateway: the client opens the escrow
\* with initialize_escrow_via_gateway, the provider proves, claims are made
NextRouter ==
    \/ \E k \in InitCalls :
         initialize_escrow_check(k, PROVIDER_WALLET, SERVICE_PRICE_LAMPORTS, SID_64, "Q4", TRUE)
    \/ \E k \in InitCalls, route \in Routes : initialize_escrow_send(k, route)
    \/ \E pda \in GatewayPdas : LedgerExecute(ProofTx(PROVIDER_WALLET, pda, "result"))
    \/ \E sig \in DOMAIN txs : LedgerProcess(sig)
    \/ \E r \in Claims, a \in GatewayPdas :
         claim_payment_verify(r, a, PROVIDER_WALLET, TRUE)
    \/ \E r \in Claims, route \in Routes : claim_payment_release(r, route, "ok")
    \/ \E r \in Claims : claim_payment_report(r, TRUE)

SpecRouter == Init /\ [][NextRouter]_vars

\* the operations of solana_utils that write the journal: one escrow
\* initialisation and one claim, with every state of the journal file
NextJournal ==
    \/ initialize_escrow_check(1, PROVIDER_WALLET, SERVICE_PRICE_LAMPORTS, SID_64, "Q4", TRUE)
    \/ \E route \in Routes : initialize_escrow_send(1, route)
    \/ \E j \in JournalStates : initialize_escrow_for_service(1, j)
    \/ \E pda \in GatewayPdas : LedgerExecute(ProofTx(PROVIDER_WALLET, pda, "result"))
    \/ \E sig \in DOMAIN txs : LedgerProcess(sig)
    \/ \E a \in GatewayPdas : claim_payment_verify(1, a, PROVIDER_WALLET, TRUE)
    \/ \E route \in Routes, j \in JournalStates : claim_payment_release(1, route, j)
    \/ \E rpc_ok \in BOOLEAN : claim_payment_report(1, rpc_ok)

SpecJournal == Init /\ [][NextJournal]_vars

\* the provider agent claims the payment of the escrow of task "Q4" through
\* the gateway, while the client opens the escrow and the provider proves
NextAgent ==
    \/ LedgerExecute(InitTx(CLIENT_WALLET, PROVIDER_WALLET, SID_SHORT, hash_task("Q4"),
                            SERVICE_PRICE_LAMPORTS))
    \/ \E pda \in GatewayPdas : LedgerExecute(ProofTx(PROVIDER_WALLET, pda, "result"))
    \/ \E sig \in DOMAIN txs : LedgerProcess(sig)
    \/ \E a \in GatewayPdas, tracked, create_ok, update_ok \in BOOLEAN,
          max_retries \in 1 .. MaxClaims :
          claim_payment_start(a, tracked, create_ok, update_ok, max_retries)
    \/ \E r \in Claims, rpc_ok \in BOOLEAN : claim_payment_post(r, rpc_ok)
    \/ \E r \in Claims, route \in Routes, j \in JournalStates :
          claim_payment_release(r, route, j)
    \/ \E r \in Claims, rpc_ok \in BOOLEAN : claim_payment_report(r, rpc_ok)
    \/ claim_payment_exception
    \/ \E update_ok \in BOOLEAN : claim_payment_response(update_ok)

SpecAgent == Init /\ [][NextAgent]_vars

\* every POST of claim_payment is answered or raises (aiohttp's session timeout)
FairAgent ==
    WF_vars(claim_payment_exception \/ \E update_ok \in BOOLEAN : claim_payment_response(update_ok))

SpecAgentFair == SpecAgent /\ FairAgent

\* one request_with_payment call against the provider's /analyze
NextClient ==
    \/ Tick
    \/ \E data \in RequestDatas : request_with_payment_send(data)
    \/ \E rpc_ok \in BOOLEAN : request_with_payment_served(rpc_ok)
    \/ request_with_payment_raise
    \/ request_with_payment_challenge
    \/ request_with_payment_create
    \/ request_with_payment_retry
    \/ request_with_payment_result
    \/ \E r \in Requests, ok \in BOOLEAN : analyze_submit(r, ok)
    \/ \E r \in Requests, ok \in BOOLEAN : analyze_poll(r, ok)
    \/ \E r \in Requests, ok \in BOOLEAN : analyze_verify(r, ok)
    \/ \E sig \in DOMAIN txs : LedgerProcess(sig)

SpecClient == Init /\ [][NextClient]_vars

\* one claim_payment call of each SDK client against any gateway
NextSdk ==
    \/ \E f \in Flavours, retry_402 \in BOOLEAN, max_retries \in 0 .. MaxSdkRetries,
          config_max_retries \in 0 .. MaxSdkRetries :
          sdk_claim_payment(f, retry_402, max_retries, config_max_retries)
    \/ \E f \in Flavours, status \in Answers : sdk_answer(f, status)

SpecSdk == Init /\ [][NextSdk]_vars

\* agents register, also twice, and advertise services
NextRegistry ==
    \/ \E profile \in Profiles : register_agent(profile)
    \/ \E service \in {l \in Listings : l.price_sol = 5 /\ l.active} :
          register_service(service)

SpecRegistry == Init /\ [][NextRegistry]_vars

\* services are advertised and searched
NextSearch ==
    \/ \E service \in Listings : register_service(service)
    \/ \E category \in {None, "", "Budget", "Other"},
          max_price \in {NoPrice, 0, 5},
          provider_address \in {None, "", "agent1"} :
          search_services(category, max_price, provider_address)

SpecSearch == Init /\ [][NextSearch]_vars

\* ------------------------------------- escrow token account (spec 4.A.1, 4.B)
\* most instruction lists handed to the ledger in one behaviour
MaxBundles == 4
\* tasks whose escrows are initialised on the two paths
AtaTasks == {"Q4", "Q5"}
\* lamports locked by one initialisation
AtaAmount == 1000000

\* one signed transaction: its instructions in order, the escrow they are
\* about and the initialize_escrow arguments
Bundle(path, ixs, tx) ==
    [path |-> path, ixs |-> ixs, pda |-> tx.pda, tx |-> tx, result |-> "pending"]

Has(ixs, name) == \E i \in DOMAIN ixs : ixs[i] = name

\* initialize_escrow_for_service, "if escrow_token_account is None": the
\* transactions sent before the library is called
PreludeInstructions(missing) ==
    IF missing THEN <<<<"create_ata">>>> ELSE <<>>

\* initialize_escrow_for_service up to the library call: reads the escrow's
\* token account and, when there is none, sends a transaction of its own that
\* holds the create instruction alone, without waiting for it
initialize_escrow_for_service_ata(task_data) ==
    /\ ata.svc.pc = "idle"
    /\ LET tx == InitTx(CLIENT_WALLET, PROVIDER_WALLET, "svc", hash_task(task_data),
                        AtaAmount)
           missing == tx.pda \notin ata.exists
           lists == PreludeInstructions(missing) IN
         /\ Len(ata.sent) + Len(lists) < MaxBundles
         /\ ata' = [ata EXCEPT
                !.sent = @ \o [i \in DOMAIN lists |-> Bundle("service", lists[i], tx)],
                !.svc = [pc |-> "init", task_data |-> task_data]]
    /\ UNCHANGED <<ledgerVars, gatewayVars, x402Vars, call, agent, x402client, sdk, market,
                   analyst,
                   store,
                   buyer>>

\* the library call that follows: the initialize instruction travels in the
\* library's own transaction, unless the escrow is found Pending already
initialize_escrow_for_service_init ==
    /\ ata.svc.pc = "init"
    /\ LET task_hash == hash_task(ata.svc.task_data)
           tx == InitTx(CLIENT_WALLET, PROVIDER_WALLET, "svc", task_hash, AtaAmount)
           exists == check_escrow_exists(CLIENT_WALLET, PROVIDER_WALLET, task_hash, TRUE) IN
         ata' = [ata EXCEPT
                !.sent = IF exists THEN @
                         ELSE Append(@, Bundle("service", <<"initialize_escrow">>, tx)),
                !.svc = [pc |-> "idle", task_data |-> ""]]
    /\ UNCHANGED <<ledgerVars, gatewayVars, x402Vars, call, agent, x402client, sdk, market,
                   analyst,
                   store,
                   buyer>>

\* create_escrow_transaction: the instruction list of the X-Payment transaction,
\* which the provider submits as it stands; the create instruction comes first
\* when the token account is missing or could not be read
create_escrow_instructions(task_data, rpc_ok) ==
    /\ Len(ata.sent) < MaxBundles
    /\ LET nonce == now
           task_hash == Sha256("svc" \o ":" \o task_data \o ":" \o ToString(nonce))
           tx == InitTx(CLIENT_WALLET, PROVIDER_WALLET, "svc", task_hash, AtaAmount)
           ata_missing == tx.pda \notin ata.exists
           create_ata == IF ~rpc_ok \/ ata_missing THEN <<"create_ata">> ELSE <<>> IN
         ata' = [ata EXCEPT
                !.sent = Append(@, Bundle("x402", create_ata \o <<"initialize_escrow">>, tx))]
    /\ UNCHANGED <<ledgerVars, gatewayVars, x402Vars, call, agent, x402client, sdk, market,
                   analyst,
                   store,
                   buyer>>

\* what the runtime answers to one instruction list: create fails on a token
\* account that exists, initialize_escrow fails without the token account
BundleCheck(b) ==
    LET after == IF Has(b.ixs, "create_ata") THEN ata.exists \cup {b.pda} ELSE ata.exists IN
    IF Has(b.ixs, "create_ata") /\ b.pda \in ata.exists THEN "TokenAccountExists"
    ELSE IF ~Has(b.ixs, "initialize_escrow") THEN "ok"
    ELSE IF b.pda \notin after THEN "TokenAccountMissing"
    ELSE CheckInitialize(b.tx)

\* The runtime executes one instruction list as one transaction: all of its
\* instructions take effect or none does.
BundleProcess(i) ==
    /\ i \in DOMAIN ata.sent
    /\ ata.sent[i].result = "pending"
    /\ LET b == ata.sent[i]
           res == BundleCheck(b)
           init == res = "ok" /\ Has(b.ixs, "initialize_escrow") IN
         /\ ata' = [ata EXCEPT
                !.sent[i].result = res,
                !.exists = IF res = "ok" /\ Has(b.ixs, "create_ata")
                           THEN @ \cup {b.pda} ELSE @]
         /\ accounts' = IF init THEN AccountsAfter(b.tx) ELSE accounts
         /\ balance' = IF init THEN BalanceAfter(b.tx) ELSE balance
    /\ UNCHANGED <<txs, gatewayVars, x402Vars, call, agent, x402client, sdk, market,
                   analyst,
                   store,
                   buyer>>

NextAta ==
    \/ \E task_data \in AtaTasks : initialize_escrow_for_service_ata(task_data)
    \/ initialize_escrow_for_service_init
    \/ \E task_data \in AtaTasks, rpc_ok \in BOOLEAN :
          create_escrow_instructions(task_data, rpc_ok)
    \/ \E i \in 1..MaxBundles : BundleProcess(i)

SpecAta == Init /\ [][NextAta]_vars

\* ----------------------- provider agent: content_analyst_agent.py, agent_a.py
\* most escrow confirmations the agent receives in one behaviour
MaxConfirmations == 3

\* what "escrow pda: ..." of a confirmation message parses to: an address, or
\* nothing when the message names none
ConfirmedPdas == InitPdas \cup {NoEscrowPda}

Event(a, kind) == [job |-> a.job, kind |-> kind, pda |-> a.escrow_pda_str]

\* StartSessionContent: the session state is reset
start_session ==
    /\ analyst.pc = "idle"
    /\ analyst' = [analyst EXCEPT !.processed_escrow_pda = NoEscrowPda]
    /\ UNCHANGED <<ledgerVars, gatewayVars, x402Vars, call, agent, x402client, sdk, market,
                   ata,
                   store,
                   buyer>>

\* a text naming "confirm" and "escrow": dropped when it names the address
\* stored as processed, else the address is stored and the work begins
handle_confirmation(escrow_pda_str) ==
    /\ analyst.pc = "idle"
    /\ analyst.job < MaxConfirmations
    /\ LET a == [analyst EXCEPT !.job = @ + 1, !.escrow_pda_str = escrow_pda_str,
                                !.proof_signature = NoSig] IN
         analyst' =
            IF escrow_pda_str # NoEscrowPda /\ analyst.processed_escrow_pda = escrow_pda_str
            THEN [a EXCEPT !.log = Append(@, Event(a, "ignored"))]
            ELSE [a EXCEPT !.processed_escrow_pda =
                               IF escrow_pda_str # NoEscrowPda THEN escrow_pda_str ELSE @,
                           !.log = Append(@, Event(a, "confirmed")),
                           !.pc = "work"]
    /\ UNCHANGED <<ledgerVars, gatewayVars, x402Vars, call, agent, x402client, sdk, market,
                   ata,
                   store,
                   buyer>>

\* content_analyzer.analyze: the result, or an exception that ends the handler;
\* without an address there is nothing to prove or to claim
perform_analysis(ok) ==
    /\ analyst.pc = "work"
    /\ analyst' =
         IF ~ok THEN [analyst EXCEPT !.pc = "idle", !.log = Append(@, Event(analyst, "error"))]
         ELSE [analyst EXCEPT !.log = Append(@, Event(analyst, "work")),
                              !.pc = IF analyst.escrow_pda_str = NoEscrowPda THEN "idle"
                                     ELSE "proof"]
    /\ UNCHANGED <<ledgerVars, gatewayVars, x402Vars, call, agent, x402client, sdk, market,
                   ata,
                   store,
                   buyer>>

\* submit_proof_for_task that hands back control as if it had a signature
ProofReturns_Always(rpc_ok) == TRUE

\* submit_proof_for_task returns the signature unless the send raises
ProofReturns(rpc_ok) == rpc_ok

\* submit_proof_for_task: the proof transaction is sent without waiting; an
\* exception goes to the handler's except clause, past the claim
submit_proof_for_task(rpc_ok) ==
    /\ analyst.pc = "proof"
    /\ Len(txs) < MaxTx
    /\ txs' = IF rpc_ok
              THEN Append(txs, ProofTx(PROVIDER_WALLET, analyst.escrow_pda_str, "result"))
              ELSE txs
    /\ analyst' =
         IF ProofReturns(rpc_ok)
         THEN [analyst EXCEPT
                  !.proof_signature = IF rpc_ok THEN Len(txs) + 1 ELSE NoSig,
                  !.log = Append(@, Event(analyst, "proof")),
                  !.pc = "claim"]
         ELSE [analyst EXCEPT !.pc = "idle", !.log = Append(@, Event(analyst, "error"))]
    /\ UNCHANGED <<accounts, balance, gatewayVars, x402Vars, call, agent, x402client, sdk,
                   market, ata,
                   store,
                   buyer>>

\* gateway.claim_payment(escrow_pda=escrow_pda_str, ...): whatever it returns,
\* the handler reports to the client and ends
claim_payment_call ==
    /\ analyst.pc = "claim"
    /\ analyst' = [analyst EXCEPT
            !.pc = "idle",
            !.log = Append(@, Event(analyst, "claim"))]
    /\ UNCHANGED <<ledgerVars, gatewayVars, x402Vars, call, agent, x402client, sdk, market,
                   ata,
                   store,
                   buyer>>

NextAnalyst ==
    \/ start_session
    \/ \E escrow_pda_str \in ConfirmedPdas : handle_confirmation(escrow_pda_str)
    \/ \E ok \in BOOLEAN : perform_analysis(ok)
    \/ \E rpc_ok \in BOOLEAN : submit_proof_for_task(rpc_ok)
    \/ claim_payment_call
    \/ \E sig \in DOMAIN txs : LedgerProcess(sig)

SpecAnalyst == Init /\ [][NextAnalyst]_vars

\* ------------------- marketplace service: database.py, service.py, models.py
\* most requests created and most status updates made in one behaviour
MaxJobRequests == 2
MaxUpdates == 3

\* ServiceRequest.status values an update may carry (the API takes any string)
JobStatuses == {"in_progress", "completed", "failed"}
\* UpdateRequestModel.amount: None, or an amount
NoAmount == -1
UpdateAmounts == {NoAmount, 5}

\* Provider(...) as register_provider creates it
NewProvider ==
    [status |-> "online", total_jobs |-> 0, completed_jobs |-> 0, failed_jobs |-> 0,
     total_earned |-> 0]

\* add_provider that writes a file holding this provider alone
add_provider_Alone(providers, agent_address, provider) == agent_address :> provider

\* MarketplaceDatabase.add_provider: providers[agent_address] = provider
add_provider(providers, agent_address, provider) ==
    (agent_address :> provider) @@ providers

\* MarketplaceDatabase.update_request: the entry with the request's id is
\* replaced; FALSE when there is none
update_request(requests, request) ==
    [i \in DOMAIN requests |->
        IF requests[i].request_id = request.request_id THEN request ELSE requests[i]]

\* Provider.record_job_completion
record_job_completion(provider, success, amount) ==
    IF success
    THEN [provider EXCEPT !.total_jobs = @ + 1, !.completed_jobs = @ + 1,
                          !.total_earned = @ + amount]
    ELSE [provider EXCEPT !.total_jobs = @ + 1, !.failed_jobs = @ + 1]

\* POST /providers/register: a new record, or the existing one set online
register_provider(agent_address) ==
    /\ LET existing == agent_address \in DOMAIN store.providers
           provider == IF existing
                       THEN [store.providers[agent_address] EXCEPT !.status = "online"]
                       ELSE NewProvider IN
         store' = [store EXCEPT
            !.providers = add_provider(@, agent_address, provider),
            !.asked = (agent_address :> "online") @@ @]
    /\ UNCHANGED <<ledgerVars, gatewayVars, x402Vars, call, agent, x402client, sdk, market,
                   ata, analyst,
                   buyer>>

\* POST /providers/status and /providers/unregister
update_provider_status(agent_address, status) ==
    /\ agent_address \in DOMAIN store.providers
    /\ store' = [store EXCEPT
            !.providers = add_provider(@, agent_address,
                                       [@[agent_address] EXCEPT !.status = status]),
            !.asked = (agent_address :> status) @@ @]
    /\ UNCHANGED <<ledgerVars, gatewayVars, x402Vars, call, agent, x402client, sdk, market,
                   ata, analyst,
                   buyer>>

\* POST /requests: request_id is a fresh uuid, here the position in the file
create_request(provider_address) ==
    /\ Len(store.requests) < MaxJobRequests
    /\ LET request_id == Len(store.requests) + 1 IN
         store' = [store EXCEPT
            !.requests = Append(@, [request_id |-> request_id, status |-> "pending",
                                    provider_address |-> provider_address, amount |-> 0]),
            !.applied = Append(@, <<>>),
            !.counted = Append(@, 0)]
    /\ UNCHANGED <<ledgerVars, gatewayVars, x402Vars, call, agent, x402client, sdk, market,
                   ata, analyst,
                   buyer>>

\* the provider's counters move when the status goes from a non-terminal to a
\* terminal one
EntersTerminal(previous_status, status) ==
    /\ previous_status \notin {"completed", "failed"}
    /\ status \in {"completed", "failed"}

\* PUT /requests, MarketplaceService.update_request_status: the endpoint is a
\* coroutine without an await, so the whole update is one step of the server
update_request_status(request_id, status, amount) ==
    /\ store.updates < MaxUpdates
    /\ request_id \in DOMAIN store.requests
    /\ LET request == store.requests[request_id]
           previous_status == request.status
           updated == [request EXCEPT !.status = status,
                                      !.amount = IF amount # NoAmount THEN amount ELSE @]
           provider_addr == request.provider_address
           counts == /\ EntersTerminal(previous_status, status)
                     /\ provider_addr \in DOMAIN store.providers IN
         store' = [store EXCEPT
            !.updates = @ + 1,
            !.requests = update_request(@, updated),
            !.applied[request_id] = Append(@, status),
            !.counted[request_id] = IF counts THEN @ + 1 ELSE @,
            !.providers =
                IF counts
                THEN add_provider(@, provider_addr,
                        record_job_completion(@[provider_addr], status = "completed",
                                              updated.amount))
                ELSE @]
    /\ UNCHANGED <<ledgerVars, gatewayVars, x402Vars, call, agent, x402client, sdk, market,
                   ata, analyst,
                   buyer>>

NextStore ==
    \/ \E agent_address \in AgentAddresses : register_provider(agent_address)
    \/ \E agent_address \in AgentAddresses : update_provider_status(agent_address, "offline")
    \/ \E provider_address \in AgentAddresses : create_request(provider_address)
    \/ \E request_id \in 1..MaxJobRequests, status \in JobStatuses, amount \in UpdateAmounts :
          update_request_status(request_id, status, amount)

SpecStore == Init /\ [][NextStore]_vars

\* ------------------------------------------------------------------- claims
WellFormed(c) == c.pda # <<"missing">> /\ c.provider # ""

\* C1: a /claim-payment request that finds the escrow Pending (no proof on the
\* ledger) is answered 402 and hands no release_payment transaction to the
\* ledger.
C1_Paywall ==
    \A r \in Claims :
        (WellFormed(claim[r]) /\ claim[r].seen = Pending) =>
            /\ claim[r].pc \in {"idle", "done"}
            /\ claim[r].sent = {}
            /\ claim[r].pc = "done" => claim[r].code = 402

\* C2: /verify-proof answers verified=true exactly when the escrow account
\* exists with status ProofSubmitted or Completed (a failed ledger read may
\* answer "error"); an unverified answer has status pending, not_found or error.
C2_VerifiedIff ==
    lastVerify.code = 200 =>
        /\ lastVerify.verified => lastVerify.seen \in {ProofSubmitted, Completed}
        /\ (lastVerify.seen \in {ProofSubmitted, Completed} /\ lastVerify.status # "error")
              => lastVerify.verified
        /\ ~lastVerify.verified => lastVerify.status \in {"pending", "not_found", "error"}

\* C3: no escrow ever has more than one successful release_payment
\* transaction, whoever sends the releases and however claims interleave.
C3_AtMostOneRelease ==
    \A a \in DOMAIN accounts : accounts[a].released <= 1

\* two claims passed the paywall for the same escrow and both sent a release:
\* one landed, the ledger rejected the other
C3_Witness ==
    \E r1, r2 \in Claims :
        /\ r1 # r2
        /\ claim[r1].pda = claim[r2].pda
        /\ \E s1 \in claim[r1].sent : txs[s1].result = "ok"
        /\ \E s2 \in claim[r2].sent : txs[s2].result = "WrongStatus"

ReleaseSignatures(pda) ==
    {s \in DOMAIN txs : txs[s].kind = "release" /\ txs[s].pda = pda /\ txs[s].result = "ok"}

\* C4: a /claim-payment request that finds the escrow already Completed (and
\* whose ledger read did not fail) is answered 200, carrying the signature of
\* the release that completed the escrow or no signature at all.
C4_CompletedIdempotent ==
    \A r \in Claims :
        (WellFormed(claim[r]) /\ claim[r].seen = Completed /\ claim[r].pc = "done"
            /\ claim[r].status # "error") =>
            /\ claim[r].code = 200
            /\ claim[r].sig \in ReleaseSignatures(claim[r].pda) \cup {NoSig}

Accepted(r) == req[r].pc = "done" /\ req[r].code = 200

PastHashCheck(r) == req[r].pc \in {"submit", "poll", "verify"} \/ Accepted(r)

\* C5: every X-Payment envelope the provider lets past its checks, and so every
\* one it accepts, carries as taskHash the SHA256 of the provider's service id,
\* the task data of the request being served and the envelope's nonce, joined by
\* ":"; an envelope with any other taskHash is never accepted.
C5_TaskHashBound ==
    \A r \in Requests :
        PastHashCheck(r) =>
            req[r].header[2].taskHash.digest
                = Sha256(SERVICE_ID \o ":" \o req[r].task_data \o ":"
                         \o ToString(req[r].header[2].nonce))

\* one request accepted, another refused for its task hash
C5_Witness ==
    \E r1, r2 \in Requests :
        /\ Accepted(r1)
        /\ req[r2].pc = "done" /\ req[r2].error = "Task hash mismatch"

\* C6: a payment whose escrow account already existed when the provider looked
\* is accepted only if that account records the client who signed the envelope's
\* transaction, this provider and at least the service price, and it is accepted
\* without submitting the transaction again.
C6_ExistingEscrowChecked ==
    \A r \in Requests :
        (Accepted(r) /\ req[r].existed) =>
            LET e == req[r].header[2] IN
              /\ req[r].sent = {}
              /\ e.escrowPDA \in DOMAIN accounts
              /\ accounts[e.escrowPDA].client = e.serializedTransaction.signer
              /\ accounts[e.escrowPDA].provider = PROVIDER_WALLET
              /\ accounts[e.escrowPDA].amount >= SERVICE_PRICE_LAMPORTS

\* C7: a request that replays a header this provider has already accepted
\* submits no transaction and waits for none, is answered 200 unless the ledger
\* cannot be read, and every transaction the provider ever submitted, hence
\* every escrow created through it, comes from a request that was not a replay.
C7_ReplayNoOp ==
    /\ \A r \in Requests :
         req[r].replay =>
            /\ req[r].sent = {}
            /\ req[r].pc \in {"verify", "done"}
            /\ req[r].pc = "done" =>
                 (req[r].code = 200 \/ req[r].error = "On-chain verification failed")
    /\ \A s \in DOMAIN txs : \E r \in Requests : s \in req[r].sent /\ ~req[r].replay

\* an accepted header replayed and accepted again, one escrow on the ledger
C7_Witness ==
    \E r1, r2 \in Requests :
        /\ r1 # r2 /\ Accepted(r1) /\ Accepted(r2)
        /\ req[r1].sent # {} /\ req[r2].replay
        /\ req[r2].header = req[r1].header
        /\ Cardinality(DOMAIN accounts) = 1


SameInputs(k1, k2) ==
    /\ call[k1].provider = call[k2].provider /\ call[k1].amount = call[k2].amount
    /\ call[k1].service_id = call[k2].service_id
    /\ call[k1].task_data = call[k2].task_data

\* C8: two distinct initialisations by the same client for the same provider
\* never derive the same escrow address, whatever their service id and task data.
C8_DistinctEscrows ==
    \A k1, k2 \in InitCalls :
        (k1 # k2 /\ call[k1].pc # "idle" /\ call[k2].pc # "idle"
         /\ call[k1].provider = call[k2].provider)
            => call[k1].pda # call[k2].pda

\* C9: when initialize_escrow_via_gateway has returned a signature and is then
\* called again with the same inputs, the second call returns the sentinel
\* ("ESCROW_ALREADY_EXISTS", used_gateway = false), and at most one initialize
\* transaction for the address ever succeeds.
C9_SecondCallSentinel ==
    /\ \A k1, k2 \in InitCalls :
         (k1 \in call[k2].after /\ ~call[k1].raised /\ SameInputs(k1, k2)
          /\ call[k2].pc = "done")
            => (call[k2].sig = ESCROW_ALREADY_EXISTS /\ ~call[k2].used_gateway)
    /\ \A pda \in InitPdas :
         Cardinality({s \in DOMAIN txs : txs[s].kind = "init" /\ txs[s].pda = pda
                                          /\ txs[s].result = "ok"}) <= 1

\* C10: a call that finds the escrow at the derived address in ProofSubmitted,
\* Completed or Cancelled state ends without the sentinel and without having
\* submitted an initialize transaction for that address.
C10_NonPendingRefused ==
    \A k \in InitCalls :
        (call[k].pc # "idle" /\ call[k].seen \in {ProofSubmitted, Completed, Cancelled})
            => /\ call[k].pc = "done"
               /\ call[k].sig # ESCROW_ALREADY_EXISTS
               /\ call[k].sent = {}

InitTxsFor(pda) == {s \in DOMAIN txs : txs[s].kind = "init" /\ txs[s].pda = pda}

StatusesOf(a) == [i \in DOMAIN a.history |-> a.history[i].status]
IsPrefix(p, q) == Len(p) <= Len(q) /\ \A i \in DOMAIN p : p[i] = q[i]

\* C12: the statuses an escrow has gone through, in order, are a prefix of
\* Pending, ProofSubmitted, Completed or of Pending, Cancelled, and the last of
\* them is its current status; so nothing leaves Completed or Cancelled and no
\* other transition is ever accepted.
C12_StatusSequence ==
    \A a \in DOMAIN accounts :
        /\ \/ IsPrefix(StatusesOf(accounts[a]), <<Pending, ProofSubmitted, Completed>>)
           \/ IsPrefix(StatusesOf(accounts[a]), <<Pending, Cancelled>>)
        /\ accounts[a].history[Len(accounts[a].history)].status = accounts[a].status

\* an escrow went all the way to Completed and a cancel by its client was
\* rejected for the status on the way
C12_Witness ==
    \E a \in DOMAIN accounts :
        /\ StatusesOf(accounts[a]) = <<Pending, ProofSubmitted, Completed>>
        /\ \E s \in DOMAIN txs :
             /\ txs[s].pda = a /\ txs[s].kind = "cancel"
             /\ txs[s].signer = accounts[a].client /\ txs[s].result = "WrongStatus"

\* C13: the token account of every escrow holds exactly the escrow's amount
\* while the status is Pending or ProofSubmitted and nothing once the status is
\* Completed or Cancelled.
C13_EscrowBalance ==
    \A a \in DOMAIN accounts :
        accounts[a].tokens =
            IF accounts[a].status \in {Pending, ProofSubmitted}
            THEN accounts[a].amount ELSE 0

\* an escrow opened through the library was released: its token account is
\* empty and the provider holds the amount
C13_Witness ==
    \E k \in InitCalls :
        /\ \E s \in call[k].sent : txs[s].result = "ok"
        /\ Exists(call[k].pda)
        /\ accounts[call[k].pda].status = Completed
        /\ accounts[call[k].pda].tokens = 0
        /\ balance[PROVIDER_WALLET] >= INITIAL_TOKENS + accounts[call[k].pda].amount

DesignatedParty(a, status) ==
    IF status = ProofSubmitted THEN accounts[a].provider ELSE accounts[a].client

\* C14: every status change of an escrow was made by a transaction signed by
\* the designated party: the provider recorded in the escrow for submit_proof,
\* the client recorded in it for release_payment and cancel_escrow; and every
\* such transaction of another signer that the ledger processed was rejected.
C14_DesignatedSigner ==
    /\ \A a \in DOMAIN accounts : \A i \in DOMAIN accounts[a].history :
         accounts[a].history[i].by = DesignatedParty(a, accounts[a].history[i].status)
    /\ \A s \in DOMAIN txs :
         (txs[s].kind \in {"proof", "release", "cancel"} /\ txs[s].result = "ok")
            => txs[s].signer = DesignatedParty(txs[s].pda,
                                   IF txs[s].kind = "proof" THEN ProofSubmitted ELSE Completed)

\* the provider's proof was accepted, a proof signed by another wallet and a
\* release signed by the provider were rejected
C14_Witness ==
    \E a \in DOMAIN accounts :
        /\ accounts[a].status \in {ProofSubmitted, Completed}
        /\ \E s \in DOMAIN txs :
             txs[s].pda = a /\ txs[s].kind = "proof" /\ txs[s].result = "WrongSigner"
        /\ \E s \in DOMAIN txs :
             /\ txs[s].pda = a /\ txs[s].kind = "release"
             /\ txs[s].signer = accounts[a].provider /\ txs[s].result = "WrongAuthority"

\* C15: whenever the ledger processes a submit_proof of the escrow's provider
\* on an escrow whose status is not Pending (a proof is already there, with the
\* same hash or another, or the escrow was cancelled or completed), the
\* transaction fails with WrongStatus and no account changes.
C15_ProofRejectedCleanly ==
    [][\A s \in DOMAIN txs :
          (/\ txs[s].kind = "proof" /\ txs[s].result = "pending"
           /\ txs'[s].result # "pending"
           /\ Exists(txs[s].pda)
           /\ txs[s].signer = accounts[txs[s].pda].provider
           /\ accounts[txs[s].pda].status # Pending)
             => (txs'[s].result = "WrongStatus" /\ accounts' = accounts
                 /\ balance' = balance)]_vars

\* a second proof with the hash already recorded was rejected, and so was a
\* proof sent after a cancel
C15_Witness ==
    \E a \in DOMAIN accounts : \E s \in DOMAIN txs :
        /\ txs[s].pda = a /\ txs[s].kind = "proof" /\ txs[s].result = "WrongStatus"
        /\ \/ accounts[a].status = ProofSubmitted /\ accounts[a].proof_hash = txs[s].proof_hash
           \/ accounts[a].status = Cancelled /\ accounts[a].proof_hash = NoHash

FallbackRoutes == {"rpc", "gateway_lost_rpc", "gateway_refused_rpc"}

\* C16: for initialize_escrow_via_gateway and release_payment_via_gateway alike,
\* when the gateway path fails for whatever reason and the RPC send works, the
\* transaction has gone out over RPC and the routine returns used_gateway =
\* false; used_gateway = true comes back only from a run in which the gateway
\* delivered the transaction and answered, and then nothing was sent over RPC.
C16_FallbackToRpc ==
    /\ \A k \in InitCalls :
         /\ (call[k].route \in FallbackRoutes)
               => (~call[k].raised /\ ~call[k].used_gateway /\ call[k].sent # {}
                   /\ call[k].sig \in call[k].sent)
         /\ call[k].used_gateway
               => (call[k].route = "gateway" /\ Cardinality(call[k].sent) = 1)
    /\ \A r \in Claims :
         /\ (claim[r].route \in FallbackRoutes)
               => (~claim[r].used_gateway /\ claim[r].sent # {})
         /\ claim[r].used_gateway
               => (claim[r].route = "gateway" /\ Cardinality(claim[r].sent) = 1)

\* an initialisation that fell back to RPC and a release the gateway delivered
C16_Witness ==
    /\ \E k \in InitCalls :
         call[k].route \in FallbackRoutes /\ call[k].pc = "done" /\ ~call[k].used_gateway
    /\ \E r \in Claims : claim[r].route = "gateway" /\ claim[r].used_gateway

DeterministicRejections ==
    {"AlreadyExists", "InsufficientFunds", "WrongStatus", "WrongSigner", "WrongAuthority"}

\* C17: when the gateway reports that the program rejects the instruction, the
\* library does not send it over RPC; and no call that has returned a signature,
\* and no claim answered 200, is for a transaction the ledger rejected with a
\* deterministic error: such a rejection reaches the caller as an error.
C17_RejectionNotRetried ==
    /\ \A k \in InitCalls :
         /\ call[k].route = "gateway_refused_rpc" => call[k].sent = {}
         /\ (call[k].pc = "done" /\ ~call[k].raised)
               => \A s \in call[k].sent : txs[s].result \notin DeterministicRejections
    /\ \A r \in Claims :
         /\ claim[r].route = "gateway_refused_rpc" => claim[r].sent = {}
         /\ (claim[r].pc = "done" /\ claim[r].code = 200)
               => \A s \in claim[r].sent : txs[s].result \notin DeterministicRejections

\* C19: the journal never stands in the way of a transition: when the library
\* handed a signature to initialize_escrow_for_service or to
\* release_payment_from_escrow, the operation returns that signature.
C19_JournalAdvisory ==
    /\ \A k \in InitCalls :
         (call[k].svc # "" /\ ~call[k].raised) => call[k].svc = "returned"
    /\ \A r \in Claims :
         (claim[r].route # "" /\ ReturnsSignature(claim[r].route))
            => claim[r].release_sig \in claim[r].sent

\* C20: a failed release is answered by its error kind: 503 when neither the
\* gateway nor RPC took the transaction, 403 when the ledger rejected the
\* signer, and 409, or 200 with the signature of the release that landed, when
\* the ledger rejected it for the escrow's status (the loser of two claims).
C20_ErrorKindMapped ==
    \A r \in Claims :
        claim[r].pc = "done" =>
            /\ claim[r].route \in {"fail", "gateway_lost_fail"} => claim[r].code = 503
            /\ \A s \in claim[r].sent :
                 /\ txs[s].result \in {"WrongStatus", "AlreadyExists"}
                       => \/ claim[r].code = 409
                          \/ /\ claim[r].code = 200
                             /\ claim[r].sig \in DOMAIN txs
                             /\ txs[claim[r].sig].result = "ok"
                 /\ txs[s].result \in {"WrongSigner", "WrongAuthority"}
                       => claim[r].code = 403

\* C18: a claim the gateway answered 200 is reported as a success carrying
\* the gateway's signature, whether or not the marketplace job could be
\* updated; a failed update leaves a warning, and a release that landed stays:
\* the escrow is Completed and was paid out once.
C18_MarketplaceNonFatal ==
    (agent.pc = "done" /\ agent.code = 200) =>
        /\ agent.success
        /\ agent.error = ""
        /\ agent.tx = claim[agent.attempt + 1].sig
        /\ (agent.request_id /\ agent.job # "completed") => agent.warnings >= 1
        /\ (agent.tx \in DOMAIN txs /\ txs[agent.tx].result = "ok")
              => /\ accounts[agent.escrow_pda].status = Completed
                 /\ accounts[agent.escrow_pda].released = 1

C18_Witness ==
    /\ agent.pc = "done"
    /\ agent.code = 200
    /\ agent.success
    /\ agent.request_id
    /\ agent.job = "in_progress"
    /\ agent.tx \in DOMAIN txs
    /\ txs[agent.tx].result = "ok"
    /\ accounts[agent.escrow_pda].status = Completed

EnvelopeRejections ==
    {"Invalid base64 encoding in X-Payment header", "Invalid JSON in X-Payment header",
     "Invalid x402 version", "Invalid payment scheme", "Invalid network",
     "Missing escrowPDA in payload", "Missing taskHash in payload",
     "Missing serializedTransaction in payload", "Missing nonce in payload",
     "Task hash mismatch"}

\* C21: a request the provider rejects for its envelope (malformed, other
\* version or scheme, task hash not matching the request's data) is answered 400.
C21_EnvelopeRejected400 ==
    \A r \in Requests :
        (req[r].pc = "done" /\ req[r].error \in EnvelopeRejections) => req[r].code = 400

\* C22: a request whose X-Payment header cannot be decoded, or whose envelope
\* is of another version, scheme or network, ends rejected: nothing was sent to
\* the ledger for it and it was not answered 200.
C22_BadEnvelopeRejected ==
    \A r \in Requests :
        req[r].kind \in {"undecodable", "mismatch"}
            => /\ req[r].pc = "done"
               /\ req[r].code # 200
               /\ req[r].sent = {}
               /\ req[r].error # ""

C22_Witness ==
    /\ \E r \in Requests : req[r].kind = "mismatch" /\ req[r].code = 402
    /\ \E r \in Requests : req[r].kind = "undecodable" /\ req[r].code = 402

\* C23: a request without X-Payment header is answered 402 with the payment
\* challenge for its task data (the default task when it carries none), and
\* nothing is sent to the ledger for it.
C23_ChallengeWithoutHeader ==
    \A r \in Requests :
        (req[r].pc = "done" /\ req[r].kind = "absent")
            => /\ req[r].code = 402
               /\ req[r].challenge = PaymentChallenge(req[r].task_data)
               /\ req[r].sent = {}

\* C24: the client sends at most two requests, at most one of them with the
\* X-Payment header; a call that received a 402 challenge has sent the paid
\* request exactly once, and when that one is answered 402 too the call is
\* over with that 402 as its result.
C24_RetryExactlyOnce ==
    /\ x402client.posts <= 2
    /\ x402client.paid <= 1
    /\ x402client.paid = 1 => x402client.first_code = 402
    /\ (x402client.pc = "done" /\ x402client.first_code = 402)
          => x402client.paid = 1 /\ x402client.posts = 2
    /\ (x402client.pc = "done" /\ ~x402client.raised /\ x402client.paid = 1)
          => x402client.status = req[2].code
    /\ (x402client.paid = 1 /\ req[2].pc = "done" /\ req[2].code = 402)
          => x402client.pc \in {"retry", "done"}

C24_Witness ==
    /\ x402client.pc = "done"
    /\ ~x402client.raised
    /\ x402client.first_code = 402
    /\ x402client.paid = 1
    /\ x402client.status = 402

\* C25: a claim_payment call made with retry_402 = False that has been
\* answered 402 is over, raised PaymentRequired, and sent no request after
\* the 402; in both clients.
C25_No402RetryWithoutFlag ==
    \A f \in Flavours :
        (~sdk[f].retry_402 /\ sdk[f].seen402)
            => /\ sdk[f].pc = "done"
               /\ sdk[f].outcome = "PaymentRequired"
               /\ sdk[f].after402 = 0

C25_Witness ==
    \A f \in Flavours :
        /\ ~sdk[f].retry_402
        /\ sdk[f].max_retries > 0
        /\ sdk[f].seen402
        /\ sdk[f].outcome = "PaymentRequired"
        /\ sdk[f].sent = 2

\* the first register_agent call made for an address
FirstCall(a) ==
    CHOOSE i \in DOMAIN market.agent_calls :
        /\ market.agent_calls[i].profile.agent_address = a
        /\ \A j \in 1 .. (i - 1) : market.agent_calls[j].profile.agent_address # a

\* C26: the registry holds one profile for each address registered, that of
\* the first register_agent call for the address; that call returned True and
\* every later call for the address returned False.
C26_FirstRegistrationWins ==
    /\ DOMAIN market.agents =
          {market.agent_calls[i].profile.agent_address : i \in DOMAIN market.agent_calls}
    /\ \A a \in DOMAIN market.agents :
         /\ market.agents[a].agent_address = a
         /\ market.agents[a].agent_name = market.agent_calls[FirstCall(a)].profile.agent_name
         /\ market.agents[a].agent_type = market.agent_calls[FirstCall(a)].profile.agent_type
    /\ \A i \in DOMAIN market.agent_calls :
         market.agent_calls[i].returned
            <=> i = FirstCall(market.agent_calls[i].profile.agent_address)

C26_Witness ==
    \E i, j \in DOMAIN market.agent_calls :
        /\ i < j
        /\ market.agent_calls[i].profile.agent_address
              = market.agent_calls[j].profile.agent_address
        /\ market.agent_calls[i].profile.agent_name
              # market.agent_calls[j].profile.agent_name
        /\ ~market.agent_calls[j].returned

\* a filter counts as supplied when it is neither None nor empty
Matches(service, q) ==
    /\ service.active
    /\ q.category \notin {None, ""} => service.category = q.category
    /\ q.max_price # NoPrice => service.price_sol <= q.max_price
    /\ q.provider_address \notin {None, ""} => service.provider_address = q.provider_address

\* C27: the list search_services returned holds, once each, exactly the
\* services registered at the time of the call that are active and meet every
\* filter supplied.
C27_SearchExact ==
    (market.query.asked /\ market.query.at = Len(market.service_calls)) =>
        /\ {market.results[i] : i \in DOMAIN market.results}
              = {sid \in DOMAIN market.services :
                    Matches(market.services[sid], market.query)}
        /\ \A i, j \in DOMAIN market.results :
              market.results[i] = market.results[j] => i = j

C27_Witness ==
    /\ market.query.asked
    /\ market.query.at = Len(market.service_calls)
    /\ market.query.category = "Budget"
    /\ market.query.max_price = 5
    /\ Len(market.results) = 1
    /\ Cardinality(DOMAIN market.services) = 2

\* C28: a finished initialisation or claim leaves nothing half-sent: every
\* transaction it delivered to the ledger is one whose signature the caller
\* was handed; a call that raised, or a claim answered without signature,
\* delivered none.
C28_NoHalfSent ==
    /\ \A k \in InitCalls :
         call[k].pc = "done"
            => call[k].sent \subseteq (IF call[k].raised THEN {} ELSE {call[k].sig})
    /\ \A r \in Claims :
         claim[r].pc = "done"
            => claim[r].sent \subseteq (IF claim[r].sig = NoSig THEN {} ELSE {claim[r].sig})

\* C29: a routine that left the gateway path after a network error or a 5xx
\* answer went to the gateway more than once before it fell back to RPC.
C29_GatewayRetriedBeforeFallback ==
    /\ \A k \in InitCalls :
         call[k].route \in TransientRoutes => GatewayAttempts(call[k].route) > 1
    /\ \A r \in Claims :
         claim[r].route \in TransientRoutes => GatewayAttempts(claim[r].route) > 1

\* C30: on every initialisation path a create-associated-token-account
\* instruction travels in the same transaction as initialize_escrow, placed right
\* before it, and no escrow token account exists whose escrow was not initialised:
\* creation, initialisation and transfer land together or not at all.
C30_TokenAccountWithEscrow ==
    /\ \A i \in DOMAIN ata.sent :
         Has(ata.sent[i].ixs, "create_ata") =>
            ata.sent[i].ixs = <<"create_ata", "initialize_escrow">>
    /\ \A pda \in ata.exists : Exists(pda)

\* C31: for every escrow account the program has created, whatever the length
\* of its service_id, the byte check_escrow_exists reads as the status is the
\* account's status, and the check answers "reusable" exactly when the escrow is
\* Pending.
C31_StatusDecoded ==
    \A pda \in DOMAIN accounts :
        LET a == accounts[pda] IN
          /\ EscrowDataByte(a, STATUS_OFFSET) = a.status
          /\ check_escrow_exists(a.client, a.provider, a.task_hash, TRUE)
                = (a.status = Pending)

Verifying(r) == req[r].pc \in {"submit", "poll", "verify"}

\* C32: a request whose escrow account did not exist when the provider looked
\* has its embedded transaction submitted before anything else, is polled for
\* fewer than CONFIRM_POLLS + 1 rounds, and is accepted only if the account at
\* the envelope's address exists by then; and every verification under way
\* comes to an end.
C32_BoundedConfirmation ==
    /\ [](\A r \in Requests :
            /\ req[r].polls < CONFIRM_POLLS
            /\ req[r].pc \in {"poll", "verify"} /\ ~req[r].existed => req[r].sent # {}
            /\ (Accepted(r) /\ ~req[r].existed) =>
                 /\ req[r].sent # {}
                 /\ get_account_info(req[r].header[2].escrowPDA).exists)
    /\ \A r \in Requests : Verifying(r) ~> (req[r].pc = "done")

\* a payment accepted after the provider submitted it and waited for it
C32_Witness ==
    \E r \in Requests :
        Accepted(r) /\ ~req[r].existed /\ req[r].sent # {} /\ req[r].polls > 0

\* the events of the provider agent's log before position i that belong to the
\* same confirmation
Earlier(i, kind) ==
    \E j \in 1..(i - 1) :
        analyst.log[j].job = analyst.log[i].job /\ analyst.log[j].kind = kind

LogOf(kind, pda) ==
    {i \in DOMAIN analyst.log : analyst.log[i].kind = kind /\ analyst.log[i].pda = pda}

\* C39: whatever confirmations arrive, the provider agent does the work at most
\* once and sends a proof at most once for each escrow address, and it takes up
\* a confirmation only if it names an address no earlier confirmation named.
C39_OncePerEscrow ==
    \A pda \in InitPdas :
        /\ Cardinality(LogOf("work", pda)) <= 1
        /\ Cardinality(LogOf("proof", pda)) <= 1
        /\ Cardinality(LogOf("confirmed", pda)) <= 1

\* how often the updates of the provider's requests moved its counters
RECURSIVE CountedFor(_, _)
CountedFor(agent_address, n) ==
    IF n = 0 THEN 0
    ELSE CountedFor(agent_address, n - 1)
         + (IF store.requests[n].provider_address = agent_address
            THEN store.counted[n] ELSE 0)

C37_CountedOnce ==
    \A i \in DOMAIN store.requests : store.counted[i] <= 1

\* C35: a /claim-payment request whose release transaction was submitted and
\* whose signature was obtained is answered 200 with that signature, whatever
\* happens while the transaction's logs are fetched and parsed.
C35_ReleaseReported ==
    \A r \in Claims :
        (claim[r].pc = "done" /\ claim[r].release_sig # NoSig) =>
            /\ claim[r].code = 200
            /\ claim[r].sig = claim[r].release_sig

\* C36: no two requests to /analyze are both answered with the result (200) for
\* the same escrow address, be the second a replay of the first one's X-Payment
\* header or not.
C36_OneResultPerEscrow ==
    \A r1, r2 \in Requests :
        (r1 # r2 /\ Accepted(r1) /\ Accepted(r2)) =>
            req[r1].header[2].escrowPDA # req[r2].header[2].escrowPDA

\* C40: GatewayClient.claim_payment sends no more than max_retries requests to
\* /claim-payment (request attempt + 1 is the last one sent), reports success
\* only when the gateway answered the last of them 200, and every call that
\* has sent a request comes to an end.
C40_BoundedClaim ==
    /\ [](agent.pc # "idle" =>
            /\ agent.attempt + 1 <= agent.max_retries
            /\ agent.success =>
                 /\ agent.pc = "done"
                 /\ agent.code = 200
                 /\ claim[agent.attempt + 1].pc = "done"
                 /\ claim[agent.attempt + 1].code = 200)
    /\ (agent.pc = "post") ~> (agent.pc = "done")

\* success on the second and last request, after a first one answered 402
C40_Witness ==
    /\ agent.pc = "done" /\ agent.success
    /\ agent.max_retries = 2 /\ agent.attempt = 1
    /\ claim[1].code = 402

\* --------------------------------------------- client agent: agent_b.py
\* pricing messages the provider sends within one service session
MaxPricing == 3

\* "quoted_price ... else 8" through tokens_to_smallest_unit(amount_sol, 6)
QuotedAmount == 8000000

\* service_id of the n-th attempt: service name, millisecond clock and four
\* random bytes, so no two attempts share one
SessionServiceId(n) == "codereview_" \o ToString(n) \o "_" \o ToString(n)

\* task_data of the CodeReview service
SessionTaskData(n) ==
    "Review Python code for quality and security | sid=" \o SessionServiceId(n)

\* 'if ctx.storage.get("escrow_initialized"): return'
AlreadyInitialized(storage) == storage.escrow_initialized

\* handle_message takes a pricing message: the handlers of one agent run one
\* after the other; the branch returns when the flag is set and otherwise
\* builds a fresh service_id and calls initialize_escrow_for_service
pricing_message ==
    /\ buyer.pc = "idle"
    /\ buyer.handled < MaxPricing
    /\ IF AlreadyInitialized(buyer)
       THEN buyer' = [buyer EXCEPT !.handled = @ + 1]
       ELSE /\ buyer.attempts < MaxInitCalls
            /\ buyer' = [buyer EXCEPT !.handled = @ + 1, !.attempts = @ + 1,
                                      !.k = buyer.attempts + 1, !.pc = "init"]
    /\ UNCHANGED <<ledgerVars, gatewayVars, x402Vars, call, agent, x402client,
                   sdk, market, ata, analyst, store>>

\* "await initialize_escrow_for_service(...)": the library call of the handler
pricing_initialize(rpc_ok, route, j) ==
    /\ buyer.pc = "init"
    /\ \/ initialize_escrow_check(buyer.k, PROVIDER_WALLET, QuotedAmount,
                                  SessionServiceId(buyer.k),
                                  SessionTaskData(buyer.k), rpc_ok)
       \/ initialize_escrow_send(buyer.k, route)
       \/ initialize_escrow_for_service(buyer.k, j)

\* after the await: the flag is stored when the call returned; the except
\* branch reports the error to the provider and leaves the storage alone
pricing_return ==
    /\ buyer.pc = "init"
    /\ call[buyer.k].svc # ""
    /\ buyer' = [buyer EXCEPT
         !.pc = "idle",
         !.escrow_initialized = IF call[buyer.k].svc = "returned" THEN TRUE ELSE @]
    /\ UNCHANGED <<ledgerVars, gatewayVars, x402Vars, call, agent, x402client,
                   sdk, market, ata, analyst, store>>

NextBuyer ==
    \/ pricing_message
    \/ \E rpc_ok \in BOOLEAN, route \in Routes, j \in JournalStates :
          pricing_initialize(rpc_ok, route, j)
    \/ pricing_return
    \/ \E sig \in DOMAIN txs : LedgerProcess(sig)

SpecBuyer == Init /\ [][NextBuyer]_vars

\* escrows of the session: the library calls whose initialize transaction opened
\* the escrow account of the call
SessionEscrows ==
    {k \in InitCalls : /\ call[k].sent # {}
                       /\ call[k].pda \in DOMAIN accounts}

\* C38: within one service session the client agent initializes at most one
\* escrow, however many pricing messages it is sent
C38_OneEscrowPerSession == Cardinality(SessionEscrows) <= 1

====
